---- MODULE Spec2Model ----
(***************************************************************************)
(* drizzle-solid: a Drizzle-style query builder over a Solid Pod.          *)
(*                                                                         *)
(* The model has two machines.                                             *)
(*  - The pod machine: one client session (PodDialect + the SPARQL         *)
(*    executor) issuing insert / select / update / delete operations       *)
(*    against one table resource of a pod, one HTTP exchange per step.     *)
(*  - The select machine: the client-side join / aggregate fallback of     *)
(*    SelectQueryBuilder.execute, run over base and joined rows.           *)
(* JavaScript strings are sequences of characters, so that template        *)
(* strings, String(), toString(), JSON.stringify and String.includes are   *)
(* computed and not assumed.                                                *)
(***************************************************************************)
EXTENDS Integers, Sequences, FiniteSets, TLC

(* ------------------------------ bounds --------------------------------- *)
MaxOps == 2
MaxFaults == 2
MaxClock == 8

(* ------------------------- JavaScript values --------------------------- *)
Undefined == [t |-> "undefined", v |-> <<>>]
Null == [t |-> "null", v |-> <<>>]
Str(s) == [t |-> "string", v |-> s]
Num(n) == [t |-> "number", v |-> n]
Obj(k) == [t |-> "object", v |-> k]
Arr(a) == [t |-> "array", v |-> a]

IsNullish(x) == x.t \in {"undefined", "null"}

RECURSIVE NumberToString(_)
NumberToString(n) ==
  IF n < 10 THEN <<ToString(n)>>
  ELSE NumberToString(n \div 10) \o <<ToString(n % 10)>>

DigitValue(c) == CHOOSE d \in 0..9 : ToString(d) = c

IsDigit(c) == \E d \in 0..9 : ToString(d) = c

RECURSIVE parseInt(_)
parseInt(s) ==
  IF Len(s) = 1 THEN DigitValue(s[1])
  ELSE 10 * parseInt(SubSeq(s, 1, Len(s) - 1)) + DigitValue(s[Len(s)])

RECURSIVE JoinComma(_)
JoinComma(a) ==
  IF Len(a) = 0 THEN <<>>
  ELSE IF Len(a) = 1 THEN a[1]
  ELSE a[1] \o <<",">> \o JoinComma(Tail(a))

\* String(value) and `${value}`
StringOf(x) ==
  CASE x.t = "string" -> x.v
    [] x.t = "number" -> NumberToString(x.v)
    [] x.t = "array" -> JoinComma(x.v)
    [] x.t = "object" -> <<"[object Object]">>
    [] x.t = "null" -> <<"null">>
    [] OTHER -> <<"undefined">>

JSONstringify(x) ==
  CASE x.t = "object" -> <<"{">> \o x.v \o <<"}">>
    [] x.t = "string" -> <<"'">> \o x.v \o <<"'">>
    [] x.t = "number" -> NumberToString(x.v)
    [] OTHER -> <<"null">>

\* JSON.parse; a text that is not JSON makes it throw
IsJSON(s) ==
  /\ Len(s) >= 1
  /\ \/ s[1] = "{" /\ s[Len(s)] = "}" /\ Len(s) >= 2
     \/ s[1] = "'" /\ s[Len(s)] = "'" /\ Len(s) >= 2
     \/ \A i \in 1..Len(s) : IsDigit(s[i])

JSONparse(s) ==
  IF s[1] = "{" THEN Obj(SubSeq(s, 2, Len(s) - 1))
  ELSE IF s[1] = "'" THEN Str(SubSeq(s, 2, Len(s) - 1))
  ELSE Num(parseInt(s))

includes_never(text, part) == FALSE

\* String.prototype.includes
includes(text, part) ==
  \E i \in 0..(Len(text) - Len(part)) : SubSeq(text, i + 1, i + Len(part)) = part

(* ------------------------------ the table ------------------------------ *)
\* podTable('profiles', {id, name (required), age, meta (json)}, {rdfClass})
Columns == <<"id", "name", "age", "meta">>
DataColumns == <<"name", "age", "meta">>
ColumnSet == {Columns[i] : i \in 1..Len(Columns)}
required(c) == c = "name"
dataType(c) ==
  CASE c = "age" -> "integer"
    [] c = "meta" -> "json"
    [] OTHER -> "string"
rdfClass == <<"Person">>
RdfType == "rdf:type"
BaseUri == <<"/data/profiles.ttl">>

getPredicateForColumn(c) == "ns:" \o c

\* generateSubjectUri: `${baseUri}#${record.id || Date.now()}`
generateSubjectUri(id, now) ==
  BaseUri \o <<"#">> \o
    (IF IsNullish(id) \/ (id.t = "string" /\ id.v = <<>>)
       THEN NumberToString(now) ELSE StringOf(id))

(* ------------------------------ RDF terms ------------------------------ *)
Iri(u) == [lex |-> u, dt |-> "iri"]
Lit(s, d) == [lex |-> s, dt |-> d]
Unbound == [lex |-> <<>>, dt |-> "unbound"]
Triple(s, p, o) == [s |-> s, p |-> p, o |-> o]

\* buildLiteralTerm: by typeof, never by column type
buildLiteralTerm(x) ==
  CASE x.t = "string" -> Lit(x.v, "xsd:string")
    [] x.t = "number" -> Lit(NumberToString(x.v), "xsd:integer")
    [] OTHER -> Lit(StringOf(x), "xsd:string")

\* formatValue: the object term written by UPDATE; 'NULL' is no RDF term
formatValue(x, c) ==
  IF IsNullish(x) THEN Lit(<<"NULL">>, "invalid")
  ELSE IF dataType(c) = "json" THEN Lit(JSONstringify(x), "xsd:json")
  ELSE IF x.t = "string" THEN Lit(x.v, "xsd:string")
  ELSE IF x.t = "number" THEN Lit(NumberToString(x.v), "xsd:integer")
  ELSE Lit(StringOf(x), "xsd:string")

convertComunicaTerm(term) ==
  CASE term.dt = "unbound" -> Undefined
    [] term.dt = "iri" -> Str(term.lex)
    [] term.dt = "xsd:integer" -> Num(parseInt(term.lex))
    [] term.dt = "xsd:json" ->
         IF IsJSON(term.lex) THEN JSONparse(term.lex) ELSE Str(term.lex)
    [] OTHER -> Str(term.lex)

(* ----------------------- query conditions (AST) ------------------------ *)
\* QueryCondition of query-conditions.ts; absent fields hold their defaults
binary(operator, column, value) ==
  [type |-> "binary_expr", operator |-> operator, column |-> column,
   value |-> value, conditions |-> <<>>, left |-> <<>>]
eq(column, value) == binary("=", column, value)
gt(column, value) == binary(">", column, value)
inArray(column, values) == binary("IN", column, Arr(values))
isNull(column) ==
  [type |-> "unary_expr", operator |-> "IS NULL", column |-> column,
   value |-> Undefined, conditions |-> <<>>, left |-> <<>>]
and(c1, c2) ==
  [type |-> "logical_expr", operator |-> "AND", column |-> "",
   value |-> Undefined, conditions |-> <<c1, c2>>, left |-> <<>>]
or(c1, c2) ==
  [type |-> "logical_expr", operator |-> "OR", column |-> "",
   value |-> Undefined, conditions |-> <<c1, c2>>, left |-> <<>>]
not(c) ==
  [type |-> "unary_expr", operator |-> "NOT", column |-> "",
   value |-> Undefined, conditions |-> <<>>, left |-> <<c>>]

\* where(): absent, a plain map column -> value, or a condition tree
NoWhere == [kind |-> "none", map |-> <<>>, tree |-> <<>>]
WhereMap(m) == [kind |-> "map", map |-> m, tree |-> <<>>]
WhereTree(c) == [kind |-> "tree", map |-> <<>>, tree |-> <<c>>]
Entry(c, x) == <<c, x>>

\* record[column] of a plain map kept as its Object.entries
MapGet(m, c) ==
  IF \E i \in 1..Len(m) : m[i][1] = c
    THEN m[CHOOSE i \in 1..Len(m) : m[i][1] = c][2]
    ELSE Undefined

(* ---------------- the SPARQL engine over the resource ------------------ *)
\* SPARQL FILTER values: "T", "F", "E" (error); "N" is a dropped expression
Neg(b) == CASE b = "T" -> "F" [] b = "F" -> "T" [] OTHER -> b
And3(a, b) ==
  IF a = "F" \/ b = "F" THEN "F" ELSE IF a = "E" \/ b = "E" THEN "E" ELSE "T"
Or3(a, b) ==
  IF a = "T" \/ b = "T" THEN "T" ELSE IF a = "E" \/ b = "E" THEN "E" ELSE "F"
Bool3(b) == IF b THEN "T" ELSE "F"

\* operator applied to a bound term and a literal
Compare(operator, term, lit) ==
  IF term.dt = "unbound" \/ term.dt # lit.dt THEN "E"
  ELSE IF operator = "=" THEN Bool3(term.lex = lit.lex)
  ELSE IF operator = "!=" THEN Bool3(term.lex # lit.lex)
  ELSE IF term.dt # "xsd:integer" THEN "E"
  ELSE IF operator = ">" THEN Bool3(parseInt(term.lex) > parseInt(lit.lex))
  ELSE IF operator = "<" THEN Bool3(parseInt(term.lex) < parseInt(lit.lex))
  ELSE IF operator = ">=" THEN Bool3(parseInt(term.lex) >= parseInt(lit.lex))
  ELSE Bool3(parseInt(term.lex) <= parseInt(lit.lex))

\* buildBinaryExpression, evaluated on one solution
buildBinaryExpression(c, sol) ==
  IF c.column = "" THEN "N"
  ELSE IF c.column = "id" THEN
    IF c.operator \in {"=", "!="} THEN
      Compare(c.operator, Iri(sol["subject"].lex), Iri(generateSubjectUri(c.value, 0)))
    ELSE IF c.operator = "IN" /\ c.value.t = "array" THEN
      Bool3(\E i \in 1..Len(c.value.v) :
              sol["subject"].lex = generateSubjectUri(Str(c.value.v[i]), 0))
    ELSE "N"
  ELSE IF c.value.t = "undefined" THEN "N"
  ELSE IF c.value.t = "array" THEN
    IF c.operator = "IN" THEN
      IF sol[c.column].dt = "unbound" THEN "E"
      ELSE Bool3(\E i \in 1..Len(c.value.v) :
                   sol[c.column] = buildLiteralTerm(Str(c.value.v[i])))
    ELSE "N"
  ELSE IF c.operator \in {"=", "!=", ">", "<", ">=", "<="} THEN
    Compare(c.operator, sol[c.column], buildLiteralTerm(c.value))
  ELSE "N"

RECURSIVE buildConditionExpression(_, _)
buildConditionExpression(c, sol) ==
  IF c.type = "binary_expr" THEN buildBinaryExpression(c, sol)
  ELSE IF c.type = "logical_expr" THEN
    LET kept == SelectSeq([i \in 1..Len(c.conditions) |->
                             buildConditionExpression(c.conditions[i], sol)],
                          LAMBDA b : b # "N")
    IN IF Len(kept) = 0 THEN "N"
       ELSE IF Len(kept) = 1 THEN kept[1]
       ELSE IF c.operator = "AND" THEN And3(kept[1], kept[2])
       ELSE Or3(kept[1], kept[2])
  ELSE IF c.operator = "NOT" /\ Len(c.left) > 0 THEN
    Neg(buildConditionExpression(c.left[1], sol))
  ELSE IF c.column = "" THEN "N"
  ELSE IF c.operator = "IS NULL" THEN
    Bool3(c.column # "id" /\ sol[c.column].dt = "unbound")
  ELSE IF c.operator = "IS NOT NULL" THEN
    Bool3(c.column = "id" \/ sol[c.column].dt # "unbound")
  ELSE "N"

\* buildFilterPatterns: does the solution pass every FILTER of the where
buildFilterPatterns(where, sol) ==
  IF where.kind = "none" THEN TRUE
  ELSE IF where.kind = "tree" THEN
    buildConditionExpression(where.tree[1], sol) \in {"T", "N"}
  ELSE \A i \in 1..Len(where.map) :
    LET c == where.map[i][1]
        x == where.map[i][2]
    IN IF x.t = "undefined" THEN TRUE
       ELSE IF x.t = "null" THEN buildConditionExpression(isNull(c), sol) \in {"T", "N"}
       ELSE buildConditionExpression(eq(c, x), sol) \in {"T", "N"}

ObjectsOf(store, s, p) == {t.o : t \in {u \in store : u.s = s /\ u.p = p}}
OptionalOf(S) == IF S = {} THEN {Unbound} ELSE S
TypedSubjects(store) == {t.s : t \in {u \in store : u.p = RdfType /\ u.o = Iri(rdfClass)}}

\* buildWherePatterns: type triple, required columns in the BGP, the others
\* OPTIONAL; the solutions the engine finds in the resource
buildWherePatterns(store) ==
  UNION {
    { [subject |-> Iri(s), name |-> n, age |-> a, meta |-> m] :
        n \in ObjectsOf(store, s, getPredicateForColumn("name")),
        a \in OptionalOf(ObjectsOf(store, s, getPredicateForColumn("age"))),
        m \in OptionalOf(ObjectsOf(store, s, getPredicateForColumn("meta"))) }
    : s \in TypedSubjects(store) }

\* an enumeration of a finite set (the engine's solution order)
RECURSIVE SetToSeq(_)
SetToSeq(S) ==
  IF S = {} THEN <<>>
  ELSE LET x == CHOOSE y \in S : TRUE IN <<x>> \o SetToSeq(S \ {x})

Solutions(store, where) ==
  SetToSeq({sol \in buildWherePatterns(store) : buildFilterPatterns(where, sol)})

\* executeQueryWithSource, SELECT branch: one row per solution, every bound
\* variable converted
Binding(sol) ==
  [subject |-> convertComunicaTerm(sol["subject"]),
   name |-> convertComunicaTerm(sol["name"]),
   age |-> convertComunicaTerm(sol["age"]),
   meta |-> convertComunicaTerm(sol["meta"])]

executeSelect(store, where) ==
  LET sols == Solutions(store, where)
  IN [i \in 1..Len(sols) |-> Binding(sols[i])]

(* ------------------------ SPARQL UPDATE texts -------------------------- *)
\* one UPDATE request body: DELETE WHERE patterns, then INSERT DATA triples;
\* valid is FALSE when the text is no SPARQL (a NULL object)
AnyPredicate == "?p"
Statement(del, all, ins) ==
  [delete |-> del, deleteAll |-> all, insert |-> ins,
   valid |-> \A t \in ins : t.o.dt # "invalid"]

\* buildInsertTriples
buildInsertTriples(values, now) ==
  UNION {
    LET subject == generateSubjectUri(values[i].id, now)
    IN {Triple(subject, RdfType, Iri(rdfClass))} \cup
       {Triple(subject, getPredicateForColumn(c), buildLiteralTerm(values[i][c])) :
          c \in {d \in {DataColumns[k] : k \in 1..Len(DataColumns)} :
                   ~IsNullish(values[i][d])}}
    : i \in 1..Len(values) }

\* the duplicate-ID guard of convertInsert
HasDuplicateIds(values) ==
  \E i, j \in 1..Len(values) :
    i < j /\ ~IsNullish(values[i].id) /\ values[i].id = values[j].id

convertInsert(values, now) == Statement({}, FALSE, buildInsertTriples(values, now))

KnownEntries(data) == SelectSeq(data, LAMBDA e : e[1] \in ColumnSet)

convertUpdate_insertOnly(data, whereMap, now) ==
  LET resourceUri == generateSubjectUri(MapGet(whereMap, "id"), now)
      known == KnownEntries(data)
  IN Statement({}, FALSE,
       {Triple(resourceUri, getPredicateForColumn(known[i][1]),
               formatValue(known[i][2], known[i][1])) : i \in 1..Len(known)})

\* convertUpdate: subject from the where map, one DELETE WHERE and one
\* inserted triple per known column of the set-data
convertUpdate(data, whereMap, now) ==
  LET resourceUri == generateSubjectUri(MapGet(whereMap, "id"), now)
      known == KnownEntries(data)
  IN Statement(
       {[s |-> resourceUri, p |-> getPredicateForColumn(known[i][1])] : i \in 1..Len(known)},
       FALSE,
       {Triple(resourceUri, getPredicateForColumn(known[i][1]),
               formatValue(known[i][2], known[i][1])) : i \in 1..Len(known)})

\* convertDelete
convertDelete(whereMap, now) ==
  IF Len(whereMap) > 0
    THEN Statement({[s |-> generateSubjectUri(MapGet(whereMap, "id"), now),
                     p |-> AnyPredicate]}, FALSE, {})
    ELSE Statement({}, TRUE, {})

\* buildUpdateQueryForSubject: null values are only deleted
buildUpdateQueryForSubject(subject, data) ==
  LET known == KnownEntries(data)
  IN Statement(
       {[s |-> subject, p |-> getPredicateForColumn(known[i][1])] : i \in 1..Len(known)},
       FALSE,
       {Triple(subject, getPredicateForColumn(known[i][1]),
               formatValue(known[i][2], known[i][1])) :
          i \in {k \in 1..Len(known) : ~IsNullish(known[k][2])}})

\* the DELETE WHERE { <subject> ?p ?o } of executeComplexDelete
DeleteSubject(subject) == Statement({[s |-> subject, p |-> AnyPredicate]}, FALSE, {})

\* the pod applying a valid UPDATE text to the resource
ApplyUpdate(g, stmt) ==
  LET gone == {t \in g :
                 \/ stmt.deleteAll /\ t.s \in TypedSubjects(g)
                 \/ \E d \in stmt.delete :
                      t.s = d.s /\ (d.p = AnyPredicate \/ d.p = t.p)}
  IN (g \ gone) \cup stmt.insert

\* the Turtle text the pod serves for the resource
RECURSIVE Concat(_)
Concat(texts) == IF Len(texts) = 0 THEN <<>> ELSE texts[1] \o Concat(Tail(texts))
TripleText(t) ==
  <<"<">> \o t.s \o <<">", " ", t.p, " ">> \o
  (IF t.o.dt = "iri" THEN <<"<">> \o t.o.lex \o <<">">>
   ELSE <<"\"">> \o t.o.lex \o <<"\"", "^^", t.o.dt>>) \o <<" ", ".">>
Turtle(g) == LET ts == SetToSeq(g) IN Concat([i \in 1..Len(ts) |-> TripleText(ts[i])])

(* ------------------------- inputs of the model ------------------------- *)
IdA == Str(<<"a">>)
IdAB == Str(<<"a", "b">>)
NameA == Str(<<"A">>)
NameB == Str(<<"B">>)
Meta1 == Obj(<<"k">>)
Row(id, name, age, meta) == [id |-> id, name |-> name, age |-> age, meta |-> meta]
r1 == Row(IdA, NameA, Num(20), Null)
r2 == Row(IdAB, NameB, Null, Null)
r3 == Row(IdA, NameB, Num(99), Meta1)
r4 == Row(Undefined, NameA, Num(20), Null)

InsertOp(values) == [type |-> "insert", values |-> values, data |-> <<>>, where |-> NoWhere]
SelectOp(where) == [type |-> "select", values |-> <<>>, data |-> <<>>, where |-> where]
UpdateOp(data, where) == [type |-> "update", values |-> <<>>, data |-> data, where |-> where]
DeleteOp(where) == [type |-> "delete", values |-> <<>>, data |-> <<>>, where |-> where]
NoOp == [type |-> "none", values |-> <<>>, data |-> <<>>, where |-> NoWhere]

ById(id) == WhereMap(<<Entry("id", id)>>)

\* the where() arguments the operations draw from
IdWheres == {ById(IdA), ById(IdAB), WhereTree(eq("id", IdA))}
TreeWheres ==
  {WhereTree(or(eq("name", NameA), eq("name", NameB))),
   WhereTree(and(eq("name", NameA), eq("age", Num(20)))),
   WhereTree(not(eq("name", NameA)))}
ColumnWheres ==
  {WhereTree(eq("name", NameA)), WhereTree(gt("age", Num(20))),
   WhereTree(inArray("id", <<IdA.v, IdAB.v>>)),
   WhereMap(<<Entry("name", NameA)>>)}
Wheres == IdWheres \cup TreeWheres \cup ColumnWheres \cup {NoWhere}

SetDatas ==
  {<<Entry("age", Num(99))>>, <<Entry("name", NameB), Entry("age", Num(20))>>,
   <<Entry("meta", Meta1)>>, <<Entry("age", Null)>>}

Batches ==
  {<<>>, <<r1>>, <<r2>>, <<r3>>, <<r4>>, <<r1, r2>>, <<r1, r3>>, <<r4, r2>>}

\* operations of the data specification (a pod that answers truthfully)
DataOps ==
  {InsertOp(b) : b \in Batches} \cup {SelectOp(w) : w \in Wheres} \cup
  {UpdateOp(d, w) : d \in SetDatas, w \in Wheres} \cup {DeleteOp(w) : w \in Wheres}

\* operations of the transport specification (a pod that may answer anything)
FlowOps ==
  {InsertOp(<<>>), InsertOp(<<r1>>), InsertOp(<<r1, r2>>), SelectOp(NoWhere),
   UpdateOp(<<Entry("age", Num(99))>>, ById(IdA)),
   UpdateOp(<<Entry("age", Num(99))>>, WhereTree(or(eq("name", NameA), eq("name", NameB)))),
   UpdateOp(<<Entry("age", Num(99))>>, NoWhere),
   DeleteOp(ById(IdA)), DeleteOp(NoWhere),
   DeleteOp(WhereTree(or(eq("name", NameA), eq("name", NameB))))}

\* contents the table resource may hold at the start: what earlier inserts
\* of this program wrote
SeedClock == 5
SeedBatches == {<<>>, <<r1>>, <<r1, r2>>, <<r3, r2>>, <<r4>>}

(* --------------------------- the pod machine --------------------------- *)
VARIABLES
  podContainer,  \* the pod holds the table's container
  podResource,   \* the pod holds the table resource
  store,         \* triples of the table resource
  connected,     \* PodDialect.connected
  pc,            \* position of the running operation
  op,            \* the running (or last) operation
  queue,         \* UPDATE texts still to send for the operation
  sent,          \* HTTP exchanges of the operation: <<method, target, status>>
  result,        \* what the operation's promise settled to
  clock,         \* Date.now()
  opsDone,       \* operations started
  faults,        \* untruthful answers the pod may still give
  pre,           \* store when the operation began
  repeat,        \* the operation repeats the one before, which resolved
  cacheStale,    \* the resource was written and invalidateCache has not run since
  sel            \* the select machine (below)

podVars == <<podContainer, podResource, store, connected, pc, op, queue, sent,
             result, clock, opsDone, faults, pre, repeat, cacheStale>>
vars == <<podContainer, podResource, store, connected, pc, op, queue, sent,
          result, clock, opsDone, faults, pre, repeat, cacheStale, sel>>

Pending == [kind |-> "none", rows |-> <<>>, error |-> ""]
Resolved(rows) == [kind |-> "rows", rows |-> rows, error |-> ""]
Rejected(msg) == [kind |-> "error", rows |-> <<>>, error |-> msg]

ok(status) == status >= 200 /\ status <= 299
NetworkError == 0
FaultStatuses == {NetworkError, 401, 405, 409, 500}
\* the answers the pod may give when the truthful one is `truth`
Answers(truth) == {truth} \cup (IF faults > 0 THEN FaultStatuses ELSE {})
Spend(status, truth) == faults' = IF status = truth THEN faults ELSE faults - 1

Request(method, target, status) == sent' = Append(sent, <<method, target, status>>)
Request2(m1, s1, m2, s2) ==
  sent' = sent \o <<<<m1, "resource", s1>>, <<m2, "resource", s2>>>>
Settle(r) == pc' = "done" /\ result' = r /\ queue' = <<>>
Goto(p) == pc' = p /\ result' = result /\ queue' = queue

\* --- builders: where() and execute() of Update/DeleteQueryBuilder
convertQueryConditionToSimple(c) ==
  IF c.type = "binary_expr" /\ c.column # "" /\ c.value.t # "undefined"
    THEN <<Entry(c.column, c.value)>> ELSE <<>>

\* this.whereConditions after where(); <<>> stands for undefined as well
whereConditions(where) ==
  IF where.kind = "tree" THEN convertQueryConditionToSimple(where.tree[1])
  ELSE where.map

\* execute(): the condition tree goes to executeComplexUpdate/Delete when no
\* simple where was derived from it
IsComplex(o) ==
  /\ o.type \in {"update", "delete"}
  /\ o.where.kind = "tree"
  /\ Len(whereConditions(o.where)) = 0

EntryError_noValuesCheck(o) ==
  IF o.type = "update" /\ Len(whereConditions(o.where)) = 0
    THEN "UPDATE operation requires where conditions to locate target resources"
  ELSE ""

\* PodDialect.query after connect(): the checks made before any request
EntryError(o) ==
  IF o.type = "insert" /\ Len(o.values) = 0
    THEN "INSERT operation requires at least one value"
  ELSE IF o.type = "update" /\ Len(whereConditions(o.where)) = 0
    THEN "UPDATE operation requires where conditions to locate target resources"
  ELSE ""

EnterPc_skipContainer(o) ==
  IF EntryError(o) # "" THEN "done"
  ELSE IF o.type = "select" THEN "select" ELSE "resourceHead"

EnterPc(o) ==
  IF EntryError(o) # "" THEN "done"
  ELSE IF o.type = "select" THEN "select" ELSE "containerHead"
EnterResult(o) == IF EntryError(o) # "" THEN Rejected(EntryError(o)) ELSE Pending

InitPod ==
  /\ podContainer \in BOOLEAN
  /\ podResource \in BOOLEAN
  /\ podResource => podContainer
  /\ store \in {buildInsertTriples(b, SeedClock) : b \in SeedBatches}
  /\ ~podResource => store = {}
  /\ connected = FALSE
  /\ pc = "idle"
  /\ op = NoOp
  /\ queue = <<>>
  /\ sent = <<>>
  /\ result = Pending
  /\ clock = SeedClock
  /\ opsDone = 0
  /\ pre = {}
  /\ repeat = FALSE /\ cacheStale = FALSE
  /\ sel = <<>>

\* a builder's execute(): route the operation; PodDialect.query connects
\* first when the dialect is not connected
Begin(o) ==
  /\ pc \in {"idle", "done"}
  /\ opsDone < MaxOps
  /\ opsDone' = opsDone + 1
  /\ op' = o
  /\ sent' = <<>>
  /\ queue' = <<>>
  /\ pre' = store
  /\ repeat' = (o = op /\ result.kind = "rows")
  /\ \E now \in {clock, clock + 1} : now <= MaxClock /\ clock' = now
  /\ IF IsComplex(o) THEN
       IF o.type = "update" /\ Len(KnownEntries(o.data)) = 0
         THEN pc' = "done" /\ result' = Resolved(<<>>)
         ELSE pc' = "containerHead" /\ result' = Pending
     ELSE IF ~connected THEN pc' = "connect" /\ result' = Pending
     ELSE pc' = EnterPc(o) /\ result' = EnterResult(o)
  /\ UNCHANGED <<podContainer, podResource, store, connected, faults, cacheStale, sel>>

\* connect(): GET podUrl
Connect ==
  /\ pc = "connect"
  /\ \E status \in Answers(200) :
       /\ Spend(status, 200)
       /\ Request("GET", "pod", status)
       /\ IF ok(status)
            THEN connected' = TRUE /\ pc' = EnterPc(op) /\ result' = EnterResult(op)
            ELSE connected' = FALSE /\ pc' = "done"
                 /\ result' = Rejected("Failed to connect to Pod")
  /\ UNCHANGED <<podContainer, podResource, store, op, queue, clock, opsDone, pre, repeat, cacheStale, sel>>

\* SELECT through the engine, which reads the resource
Select ==
  /\ pc = "select"
  /\ \E status \in Answers(IF podResource THEN 200 ELSE 404) :
       /\ Spend(status, IF podResource THEN 200 ELSE 404)
       /\ Request("GET", "resource", status)
       /\ IF ok(status)
            THEN Settle(Resolved(executeSelect(store, op.where)))
            ELSE Settle(Rejected("query failed"))
  /\ UNCHANGED <<podContainer, podResource, store, connected, op, clock, opsDone, pre, repeat, cacheStale, sel>>

\* ensureContainerExists, the HEAD
ContainerHead ==
  /\ pc = "containerHead"
  /\ \E status \in Answers(IF podContainer THEN 200 ELSE 404) :
       /\ Spend(status, IF podContainer THEN 200 ELSE 404)
       /\ Request("HEAD", "container", status)
       /\ IF status = 404 THEN Goto("containerPut")
          ELSE IF status = 200 \/ status = 409 \/ ok(status) THEN Goto("resourceHead")
          ELSE Settle(Rejected("Failed to check container"))
  /\ UNCHANGED <<podContainer, podResource, store, connected, op, clock, opsDone, pre, repeat, cacheStale, sel>>

\* ensureContainerExists, the PUT that creates the container
ContainerPut ==
  /\ pc = "containerPut"
  /\ \E status \in Answers(201) :
       /\ Spend(status, 201)
       /\ Request("PUT", "container", status)
       /\ podContainer' = (podContainer \/ status = 201)
       /\ IF ok(status) \/ status = 409 THEN Goto("resourceHead")
          ELSE Settle(Rejected("Failed to create container"))
  /\ UNCHANGED <<podResource, store, connected, op, clock, opsDone, pre, repeat, cacheStale, sel>>

AfterExists_noCreate(exists) ==
  IF exists \/ op.type = "insert" THEN
    IF op.type = "insert" THEN Goto("checkExistence")
    ELSE IF IsComplex(op) THEN Goto("findSubjects")
    ELSE /\ pc' = "patch"
         /\ result' = result
         /\ queue' = <<IF op.type = "update"
                         THEN convertUpdate(op.data, whereConditions(op.where), clock)
                         ELSE convertDelete(whereConditions(op.where), clock)>>
  ELSE IF op.type = "delete" /\ ~IsComplex(op)
    THEN Settle(Resolved(<<[success |-> TRUE, source |-> BaseUri, status |-> 404]>>))
  ELSE Settle(Rejected("Resource not found"))

\* what follows resourceExists(): insert creates a missing resource, update
\* demands it, delete returns early without it
AfterExists(exists) ==
  IF exists THEN
    IF op.type = "insert" THEN Goto("checkExistence")
    ELSE IF IsComplex(op) THEN Goto("findSubjects")
    ELSE /\ pc' = "patch"
         /\ result' = result
         /\ queue' = <<IF op.type = "update"
                         THEN convertUpdate(op.data, whereConditions(op.where), clock)
                         ELSE convertDelete(whereConditions(op.where), clock)>>
  ELSE IF op.type = "insert" THEN Goto("resourcePut")
  ELSE IF op.type = "delete" /\ ~IsComplex(op)
    THEN Settle(Resolved(<<[success |-> TRUE, source |-> BaseUri, status |-> 404]>>))
  ELSE Settle(Rejected("Resource not found"))

\* resourceExists(), the HEAD
ResourceHead ==
  /\ pc = "resourceHead"
  /\ \E status \in Answers(IF podResource THEN 200 ELSE 404) :
       /\ Spend(status, IF podResource THEN 200 ELSE 404)
       /\ Request("HEAD", "resource", status)
       /\ IF ok(status) \/ status = 409 THEN AfterExists(TRUE)
          ELSE IF status = 404 THEN AfterExists(FALSE)
          ELSE IF status = 405 \/ status = NetworkError THEN Goto("resourceGet")
          ELSE IF status = 401 \/ status = 403 THEN AfterExists(TRUE)
          ELSE AfterExists(FALSE)
  /\ UNCHANGED <<podContainer, podResource, store, connected, op, clock, opsDone, pre, repeat, cacheStale, sel>>

\* resourceExists(), the GET after a 405 or a failed HEAD
ResourceGet ==
  /\ pc = "resourceGet"
  /\ \E status \in Answers(IF podResource THEN 200 ELSE 404) :
       /\ Spend(status, IF podResource THEN 200 ELSE 404)
       /\ Request("GET", "resource", status)
       /\ AfterExists(ok(status))
  /\ UNCHANGED <<podContainer, podResource, store, connected, op, clock, opsDone, pre, repeat, cacheStale, sel>>

\* ensureResourceExists, the PUT of an empty Turtle document
ResourcePut ==
  /\ pc = "resourcePut"
  /\ \E status \in Answers(201) :
       /\ Spend(status, 201)
       /\ Request("PUT", "resource", status)
       /\ cacheStale' = (cacheStale \/ ok(status))
       /\ podResource' = (podResource \/ status = 201)
       /\ podContainer' = (podContainer \/ status = 201)
       /\ store' = IF status = 201 THEN {} ELSE store
       /\ IF ok(status) \/ status \in {201, 202, 204, 409} THEN Goto("checkExistence")
          ELSE Settle(Rejected("Failed to create resource"))
  /\ UNCHANGED <<connected, op, clock, opsDone, pre, repeat, sel>>

\* checkResourceExistence, then convertInsert
CheckExistence ==
  /\ pc = "checkExistence"
  /\ \E status \in Answers(IF podResource THEN 200 ELSE 404) :
       /\ Spend(status, IF podResource THEN 200 ELSE 404)
       /\ Request("GET", "resource", status)
       /\ IF ~ok(status) /\ status # 404 THEN Settle(Rejected("HTTP error"))
          ELSE IF ok(status) /\ \E i \in 1..Len(op.values) :
                    includes(Turtle(store), generateSubjectUri(op.values[i].id, clock))
            THEN Settle(Rejected("Resource already exists, INSERT aborted"))
          ELSE IF HasDuplicateIds(op.values)
            THEN Settle(Rejected("Duplicate IDs found in insert data"))
          ELSE pc' = "patch" /\ result' = result
               /\ queue' = <<convertInsert(op.values, clock)>>
  /\ UNCHANGED <<podContainer, podResource, store, connected, op, clock, opsDone, pre, repeat, cacheStale, sel>>

\* findSubjectsForCondition: SELECT ?subject, then one UPDATE text per subject
FindSubjects ==
  /\ pc = "findSubjects"
  /\ \E status \in Answers(IF podResource THEN 200 ELSE 404) :
       /\ Spend(status, IF podResource THEN 200 ELSE 404)
       /\ Request("GET", "resource", status)
       /\ IF ~ok(status) THEN Settle(Rejected("query failed"))
          ELSE LET rows == executeSelect(store, op.where)
               IN IF Len(rows) = 0 THEN Settle(Resolved(<<>>))
                  ELSE /\ pc' = "patch"
                       /\ result' = result
                       /\ queue' = [i \in 1..Len(rows) |->
                            IF op.type = "update"
                              THEN buildUpdateQueryForSubject(rows[i].subject.v, op.data)
                              ELSE DeleteSubject(rows[i].subject.v)]
  /\ UNCHANGED <<podContainer, podResource, store, connected, op, clock, opsDone, pre, repeat, cacheStale, sel>>

\* executeUpdate succeeded for the text at the head of the queue
Succeeded(status) ==
  LET entry == [success |-> TRUE, source |-> BaseUri, status |-> status]
  IN /\ queue' = Tail(queue)
     /\ pc' = IF Len(queue) = 1 THEN "done" ELSE "patch"
     /\ result' = [kind |-> IF Len(queue) = 1 THEN "rows" ELSE "none",
                   rows |-> Append(result.rows, entry), error |-> ""]

\* the pod's truthful answer to an UPDATE text
PatchTruth(stmt) == IF stmt.valid THEN 205 ELSE 400

\* the pod applies the text when it answers truthfully with success
Applied(status) ==
  IF status = 205
    THEN /\ store' = ApplyUpdate(store, queue[1])
         /\ podResource' = TRUE
         /\ podContainer' = TRUE
    ELSE UNCHANGED <<store, podResource, podContainer>>

\* invalidateCache after a 2xx answer: engine.invalidateHttpCache(source)
invalidateCache(status) == cacheStale' = IF ok(status) THEN FALSE ELSE cacheStale

PatchOutcome_alwaysRetry(status) == IF ok(status) THEN "success" ELSE "conflict"

\* executeUpdate: how the answer to the first PATCH is classified
PatchOutcome(status) ==
  IF ok(status) THEN "success" ELSE IF status = 409 THEN "conflict" ELSE "failure"

Patch_continuesAfterFailure ==
  /\ pc = "patch"
  /\ \E status \in Answers(PatchTruth(queue[1])) :
       /\ Spend(status, PatchTruth(queue[1]))
       /\ Request2("HEAD", IF podResource THEN 200 ELSE 404, "PATCH", status)
       /\ invalidateCache(status)
       /\ Applied(status)
       /\ IF PatchOutcome(status) = "success" THEN Succeeded(status)
          ELSE IF PatchOutcome(status) = "conflict" THEN Goto("retryPatch")
          ELSE IF Len(queue) > 1
            THEN pc' = "patch" /\ result' = result /\ queue' = Tail(queue)
          ELSE Settle(Rejected("PATCH failed"))
  /\ UNCHANGED <<connected, op, clock, opsDone, pre, repeat, sel>>

\* executeUpdate: HEAD for the ETag, then PATCH with If-Match
Patch ==
  /\ pc = "patch"
  /\ \E status \in Answers(PatchTruth(queue[1])) :
       /\ Spend(status, PatchTruth(queue[1]))
       /\ Request2("HEAD", IF podResource THEN 200 ELSE 404, "PATCH", status)
       /\ invalidateCache(status)
       /\ Applied(status)
       /\ IF PatchOutcome(status) = "success" THEN Succeeded(status)
          ELSE IF PatchOutcome(status) = "conflict" THEN Goto("retryPatch")
          ELSE Settle(Rejected("PATCH failed"))
  /\ UNCHANGED <<connected, op, clock, opsDone, pre, repeat, sel>>

\* executeUpdate, 409 strategy 1: PATCH again without If-Match
RetryPatch ==
  /\ pc = "retryPatch"
  /\ \E status \in Answers(PatchTruth(queue[1])) :
       /\ Spend(status, PatchTruth(queue[1]))
       /\ Request("PATCH", "resource", status)
       /\ invalidateCache(status)
       /\ Applied(status)
       /\ IF ok(status) THEN Succeeded(status) ELSE Goto("ladderGet")
  /\ UNCHANGED <<connected, op, clock, opsDone, pre, repeat, sel>>

LadderGet_alwaysPut ==
  /\ pc = "ladderGet"
  /\ \E status \in Answers(IF podResource THEN 200 ELSE 404) :
       /\ Spend(status, IF podResource THEN 200 ELSE 404)
       /\ Request("GET", "resource", status)
       /\ Goto("ladderPut")
  /\ UNCHANGED <<podContainer, podResource, store, connected, op, clock, opsDone, pre, repeat, cacheStale, sel>>

\* executeUpdate, 409 strategy 2: GET the resource
LadderGet ==
  /\ pc = "ladderGet"
  /\ \E status \in Answers(IF podResource THEN 200 ELSE 404) :
       /\ Spend(status, IF podResource THEN 200 ELSE 404)
       /\ Request("GET", "resource", status)
       /\ IF ok(status) THEN Goto("ladderPut")
          ELSE Settle(Rejected("All retry strategies failed"))
  /\ UNCHANGED <<podContainer, podResource, store, connected, op, clock, opsDone, pre, repeat, cacheStale, sel>>

\* executeUpdate, 409 strategy 2: PUT the UPDATE text as the resource; the
\* pod replaces the document, which then holds no triples
LadderPut ==
  /\ pc = "ladderPut"
  /\ \E status \in Answers(205) :
       /\ Spend(status, 205)
       /\ Request("PUT", "resource", status)
       /\ invalidateCache(status)
       /\ store' = IF status = 205 THEN {} ELSE store
       /\ IF ok(status) THEN Succeeded(status)
          ELSE Settle(Rejected("All retry strategies failed"))
  /\ UNCHANGED <<podContainer, podResource, connected, op, clock, opsDone, pre, repeat, sel>>

Init == InitPod /\ faults = MaxFaults

Next ==
  \/ \E o \in FlowOps : Begin(o)
  \/ Connect
  \/ Select
  \/ ContainerHead
  \/ ContainerPut
  \/ ResourceHead
  \/ ResourceGet
  \/ ResourcePut
  \/ CheckExistence
  \/ FindSubjects
  \/ Patch
  \/ RetryPatch
  \/ LadderGet
  \/ LadderPut

\* one session against a pod that may answer any request untruthfully
Spec == Init /\ [][Next]_vars

InitData == InitPod /\ faults = 0

NextData ==
  \/ \E o \in DataOps : Begin(o)
  \/ Connect
  \/ Select
  \/ ContainerHead
  \/ ContainerPut
  \/ ResourceHead
  \/ ResourcePut
  \/ CheckExistence
  \/ FindSubjects
  \/ Patch

\* one session against a pod that answers every request truthfully
SpecData == InitData /\ [][NextData]_vars

(* -------------------------- the select machine ------------------------- *)
\* select().from(posts) [.innerJoin|.leftJoin(users, {'posts.authorId':
\* 'users.<on>'})] [.limit] [.offset] [.orderBy(rank)] [.distinct],
\* or select({total: count()}) over the same.
MaxRows == 2

PostRow(id, title, authorId, rank) ==
  [subject |-> Str(<<"/posts.ttl", "#">> \o id), title |-> Str(title),
   authorId |-> authorId, rank |-> Num(rank)]
UserRow(id, name) == [subject |-> Str(<<"/users.ttl", "#">> \o id), name |-> Str(name)]
U1 == <<"u", "1">>
U2 == <<"u", "2">>
PostRows ==
  {PostRow(<<"p", "1">>, <<"T", "1">>, Str(U1), 2),
   PostRow(<<"p", "2">>, <<"T", "2">>, Str(U1), 1),
   PostRow(<<"p", "3">>, <<"T", "3">>, Str(<<"u", "9">>), 3),
   PostRow(<<"p", "4">>, <<"T", "4">>, Undefined, 4)}
UserRows == {UserRow(U1, <<"A", "n", "n">>), UserRow(U2, U1), UserRow(<<"u", "3">>, U1)}

\* the tables: sequences of distinct rows, in the engine's order
RECURSIVE TablesOf(_, _)
TablesOf(S, n) ==
  IF n = 0 THEN {<<>>}
  ELSE LET shorter == TablesOf(S, n - 1)
       IN shorter \cup
          {Append(t, x) : t \in {u \in shorter : Len(u) = n - 1},
                          x \in S} 
Distinct(t) == \A i, j \in 1..Len(t) : i # j => t[i] # t[j]
Tables(S) == {t \in TablesOf(S, MaxRows) : Distinct(t)}

Queries ==
  [join : {"none", "innerJoin", "leftJoin"}, on : {"id", "name"},
   aggregate : BOOLEAN, limit : {Undefined, Num(1)}, offset : {Undefined, Num(1)},
   orderBy : {"none", "desc"}, distinct : BOOLEAN]

hasJoins(q) == q.join # "none"
shouldUseAggregateFallback(q) == q.aggregate

\* --- the engine's solution modifiers: ORDER BY, DISTINCT, OFFSET, LIMIT
RankOf(row) ==
  IF "rank" \in DOMAIN row /\ row["rank"].t = "number" THEN row["rank"].v ELSE 0
OrderRows(rows, orderBy) ==
  IF orderBy = "asc" THEN SortSeq(rows, LAMBDA a, b : RankOf(a) < RankOf(b))
  ELSE IF orderBy = "desc" THEN SortSeq(rows, LAMBDA a, b : RankOf(a) > RankOf(b))
  ELSE rows
RECURSIVE DistinctRows(_)
DistinctRows(rows) ==
  IF Len(rows) = 0 THEN <<>>
  ELSE LET front == DistinctRows(SubSeq(rows, 1, Len(rows) - 1))
           last == rows[Len(rows)]
       IN IF \E i \in 1..Len(front) : front[i] = last THEN front ELSE Append(front, last)
OffsetRows(rows, offset) ==
  IF offset.t = "number" THEN SubSeq(rows, offset.v + 1, Len(rows)) ELSE rows
LimitRows(rows, limit) ==
  IF limit.t = "number" /\ limit.v < Len(rows) THEN SubSeq(rows, 1, limit.v) ELSE rows
Modifiers(rows, q) ==
  LimitRows(OffsetRows(
    IF q.distinct THEN DistinctRows(OrderRows(rows, q.orderBy))
    ELSE OrderRows(rows, q.orderBy), q.offset), q.limit)

\* --- SelectQueryBuilder helpers
extractIdFromSubject(subject) ==
  LET text == subject.v
      cuts == {i \in 1..Len(text) : text[i] \in {"/", "#"}}
      last == IF cuts = {} THEN 0 ELSE CHOOSE i \in cuts : \A j \in cuts : j <= i
  IN IF last = Len(text) THEN subject ELSE Str(SubSeq(text, last + 1, Len(text)))

serializeValueForKey(x) ==
  IF x.t = "null" THEN <<"null">>
  ELSE IF x.t \in {"object", "array"} THEN JSONstringify(x)
  ELSE StringOf(x)

Prefixed(alias, row) ==
  [k \in {alias \o "." \o key : key \in DOMAIN row} |->
     row[CHOOSE key \in DOMAIN row : alias \o "." \o key = k]]

\* getRowValueForColumn over getColumnKeyCandidates
getRowValueForColumn(row, alias, column) ==
  IF alias = "posts" /\ column \in DOMAIN row THEN row[column]
  ELSE IF (alias \o "." \o column) \in DOMAIN row THEN row[alias \o "." \o column]
  ELSE Undefined

normalizeBaseRows(rows) ==
  [i \in 1..Len(rows) |->
     LET id == extractIdFromSubject(rows[i].subject)
     IN ("id" :> id) @@ ("posts.id" :> id) @@ Prefixed("posts", rows[i]) @@ rows[i]]

normalizeJoinRows(rows) ==
  [i \in 1..Len(rows) |->
     ("users.id" :> extractIdFromSubject(rows[i].subject)) @@ Prefixed("users", rows[i])]

\* fetchJoinRows: the joined table, narrowed by IN over the base rows' keys
\* unless the join column is id
fetchJoinRows(q, baseRows, users) ==
  LET values == {getRowValueForColumn(baseRows[i], "posts", "authorId") : i \in 1..Len(baseRows)}
      uniqueValues == {x \in values : ~IsNullish(x)}
  IN IF uniqueValues = {} THEN <<>>
     ELSE IF q.on # "id"
       THEN normalizeJoinRows(SelectSeq(users, LAMBDA u :
              \E x \in uniqueValues : buildLiteralTerm(u[q.on]) = buildLiteralTerm(x)))
     ELSE normalizeJoinRows(users)

createEmptyJoinRow ==
  ("users.name" :> Undefined) @@ ("users.subject" :> Undefined) @@ ("users.id" :> Undefined)

RECURSIVE FlattenRows(_)
FlattenRows(groups) ==
  IF Len(groups) = 0 THEN <<>> ELSE groups[1] \o FlattenRows(Tail(groups))

mergeRowsWithJoin_leftOnly(baseRows, q, joinRows) ==
  FlattenRows([i \in 1..Len(baseRows) |-> <<createEmptyJoinRow @@ baseRows[i]>>])

\* mergeRowsWithJoin: joined rows grouped by serialized key, then one pass
\* over the base rows
mergeRowsWithJoin(baseRows, q, joinRows) ==
  LET keyed == SelectSeq(joinRows, LAMBDA j :
                 ~IsNullish(getRowValueForColumn(j, "users", q.on)))
      joinValueMap(key) == SelectSeq(keyed, LAMBDA j :
                 serializeValueForKey(getRowValueForColumn(j, "users", q.on)) = key)
      mergedFor(baseRow) ==
        LET baseValue == getRowValueForColumn(baseRow, "posts", "authorId")
            matches == IF IsNullish(baseValue) THEN <<>>
                       ELSE joinValueMap(serializeValueForKey(baseValue))
        IN IF Len(matches) = 0
             THEN (IF q.join = "innerJoin" THEN <<>>
                   ELSE <<createEmptyJoinRow @@ baseRow>>)
             ELSE [k \in 1..Len(matches) |-> matches[k] @@ baseRow]
  IN FlattenRows([i \in 1..Len(baseRows) |-> mergedFor(baseRows[i])])

\* handleAggregateFallback for select({total: count()}) without groupBy
handleAggregateFallback(rows) == <<[total |-> Num(Len(rows))]>>

SelStart(posts, users, q) ==
  [pc |-> "base", q |-> q, posts |-> posts, users |-> users, rows |-> <<>>,
   base |-> <<>>, joinRows |-> <<>>, out |-> <<>>]

InitSelect ==
  /\ podContainer = FALSE /\ podResource = FALSE /\ store = {}
  /\ connected = TRUE /\ pc = "idle" /\ op = NoOp /\ queue = <<>> /\ sent = <<>>
  /\ result = Pending /\ clock = SeedClock /\ opsDone = 0 /\ faults = 0
  /\ pre = {} /\ repeat = FALSE /\ cacheStale = FALSE
  /\ sel \in {SelStart(posts, users, q) :
                posts \in Tables(PostRows), users \in Tables(UserRows),
                q \in {x \in Queries : x.join = "none" => x.on = "id"}}

\* execute(): the base SELECT, to which limit, offset, orderBy and distinct
\* are handed; the rows are final when there is no join and no aggregate
SelBase ==
  /\ sel.pc = "base"
  /\ LET rows == Modifiers(sel.posts, sel.q)
     IN IF ~hasJoins(sel.q) /\ ~shouldUseAggregateFallback(sel.q)
          THEN sel' = [sel EXCEPT !.pc = "done", !.rows = rows, !.out = rows]
        ELSE IF hasJoins(sel.q)
          THEN sel' = [sel EXCEPT !.pc = "join",
                         !.rows = IF Len(rows) = 0 THEN rows ELSE normalizeBaseRows(rows)]
        ELSE sel' = [sel EXCEPT !.pc = "finish", !.rows = rows]
  /\ UNCHANGED podVars

\* applyJoinFallback: fetch the joined rows, merge (no where on joined
\* columns in these queries, so applyJoinFilters keeps every row)
SelJoin ==
  /\ sel.pc = "join"
  /\ LET joinRows == fetchJoinRows(sel.q, sel.rows, sel.users)
     IN sel' = [sel EXCEPT !.pc = "finish", !.base = sel.rows, !.joinRows = joinRows,
                           !.rows = mergeRowsWithJoin(sel.rows, sel.q, joinRows)]
  /\ UNCHANGED podVars

\* the aggregate fallback, or the merged rows as they are
SelFinish ==
  /\ sel.pc = "finish"
  /\ sel' = [sel EXCEPT !.pc = "done",
               !.out = IF shouldUseAggregateFallback(sel.q)
                         THEN handleAggregateFallback(sel.rows) ELSE sel.rows]
  /\ UNCHANGED podVars

NextSelect == SelBase \/ SelJoin \/ SelFinish

\* one select query run to completion over given tables
SpecSelect == InitSelect /\ [][NextSelect]_vars

(* ------------------------------ claims --------------------------------- *)
Done(type) == pc = "done" /\ op.type = type
ResolvedOp(type) == Done(type) /\ result.kind = "rows"
Sent(method, target) == {i \in 1..Len(sent) : sent[i][1] = method /\ sent[i][2] = target}
ValueOf(data, c) == MapGet(data, c)
RowSet(g) == LET rows == executeSelect(g, NoWhere) IN {rows[i] : i \in 1..Len(rows)}
Matching(g, where) == LET rows == executeSelect(g, where) IN {rows[i] : i \in 1..Len(rows)}

\* C1: once insert has resolved, a select by the id of an inserted row
\* returns exactly one row, and every non-null column of the inserted row
\* reads back equal (JSON values by deep equality).
C1_InsertRoundTrip ==
  ResolvedOp("insert") =>
    \A i \in 1..Len(op.values) :
      ~IsNullish(op.values[i].id) =>
        LET rows == executeSelect(store, ById(op.values[i].id))
        IN /\ Len(rows) = 1
           /\ \A k \in 1..Len(DataColumns) :
                ~IsNullish(op.values[i][DataColumns[k]]) =>
                  rows[1][DataColumns[k]] = op.values[i][DataColumns[k]]

\* where(C) is a single equality on id
IsIdEquality(where) ==
  \/ where.kind = "map" /\ Len(where.map) = 1 /\ where.map[1][1] = "id"
  \/ where.kind = "tree" /\ where.tree[1].type = "binary_expr"
       /\ where.tree[1].operator = "=" /\ where.tree[1].column = "id"

\* the row after set(D)
SetRow(row, data) ==
  [c \in DOMAIN row |->
     IF \E i \in 1..Len(data) : data[i][1] = c
       THEN (IF IsNullish(ValueOf(data, c)) THEN Undefined ELSE ValueOf(data, c))
       ELSE row[c]]

\* C2: an update whose where is not a single id equality sets D on exactly
\* the rows that satisfied the where, and leaves every other row as it was.
C2_UpdateByCondition ==
  (ResolvedOp("update") /\ ~IsIdEquality(op.where)) =>
    RowSet(store) =
      {SetRow(row, op.data) : row \in Matching(pre, op.where)}
        \cup (RowSet(pre) \ Matching(pre, op.where))

\* C3: once delete(C) has resolved, a select with the same where returns no
\* row, and the rows that did not satisfy C are as they were.
C3_DeleteByCondition ==
  ResolvedOp("delete") =>
    /\ executeSelect(store, op.where) = <<>>
    /\ RowSet(store) = RowSet(pre) \ Matching(pre, op.where)

SubjectsOf(g) == {t.s : t \in g}
IntroducedSubjects == {generateSubjectUri(op.values[i].id, clock) : i \in 1..Len(op.values)}
AlreadyExists == Rejected("Resource already exists, INSERT aborted")

\* C4: when the resource already holds a subject URI that the insert batch
\* would introduce, the insert rejects with the resource-exists error, no
\* SPARQL UPDATE request is sent and the resource is as it was.
C4_DuplicateSubjectRejected ==
  (Done("insert") /\ IntroducedSubjects \cap SubjectsOf(pre) # {}) =>
    /\ result = AlreadyExists
    /\ Sent("PATCH", "resource") = {}
    /\ store = pre

C4_Witness ==
  /\ Done("insert")
  /\ IntroducedSubjects \cap SubjectsOf(pre) # {}
  /\ IntroducedSubjects \ SubjectsOf(pre) # {}
  /\ result = AlreadyExists

UpdatedSubject == generateSubjectUri(MapGet(whereConditions(op.where), "id"), clock)

\* C5: an update by id that repeats the update just applied leaves the
\* resource as the first application left it, and every predicate it sets
\* holds exactly one value.
C5_UpdateIdempotent ==
  (ResolvedOp("update") /\ repeat /\ IsIdEquality(op.where)) =>
    /\ store = pre
    /\ \A i \in 1..Len(op.data) :
         Cardinality(ObjectsOf(store, UpdatedSubject,
                               getPredicateForColumn(op.data[i][1]))) = 1

C5_Witness ==
  /\ ResolvedOp("update")
  /\ repeat
  /\ IsIdEquality(op.where)
  /\ Len(op.data) = 2
  /\ UpdatedSubject \in TypedSubjects(store)

\* first PATCH of an UPDATE text: the one sent right after the ETag HEAD
FirstPatches == {i \in 2..Len(sent) : sent[i][1] = "PATCH" /\ sent[i - 1][1] = "HEAD"}

\* C6: when the first PATCH of an UPDATE text is answered with a status that
\* is neither 2xx nor 409, the operation rejects and that PATCH is the last
\* request made.
C6_PatchFailureRejects ==
  \A i \in FirstPatches :
    (~ok(sent[i][3]) /\ sent[i][3] # 409) =>
      /\ i = Len(sent)
      /\ pc = "done"
      /\ result.kind = "error"

C6_Witness ==
  /\ op.type = "update"
  /\ IsComplex(op)
  /\ pc = "done"
  /\ result.kind = "error"
  /\ \E i \in FirstPatches : sent[i][3] = 500 /\ i = Len(sent) /\ i > 4

NotFoundResult == Resolved(<<[success |-> TRUE, source |-> BaseUri, status |-> 404]>>)

\* C7: a delete on a resource that the preflight HEAD reports missing (404)
\* resolves to [{success: true, source, status: 404}] whatever the form of
\* its where, and nothing is requested after the preflight.
C7_DeleteMissingResource ==
  (Done("delete") /\ \E i \in Sent("HEAD", "resource") : sent[i][3] = 404) =>
    /\ result = NotFoundResult
    /\ sent[Len(sent)] = <<"HEAD", "resource", 404>>

NoValues == "INSERT operation requires at least one value"

\* C8 (as the code has it): insert(T).values([]) rejects; the only request it
\* can make is the connection probe of the pod, and once connected the error
\* is the missing-values error; the resource is not touched.
C8_EmptyInsertRejects ==
  (Done("insert") /\ Len(op.values) = 0) =>
    /\ result.kind = "error"
    /\ Len(sent) <= 1
    /\ \A i \in 1..Len(sent) : sent[i][1] = "GET" /\ sent[i][2] = "pod"
    /\ (sent = <<>> \/ ok(sent[1][3])) => result.error = NoValues
    /\ store = pre

C8_Witness ==
  /\ Done("insert")
  /\ Len(op.values) = 0
  /\ result = Rejected(NoValues)
  /\ sent = <<<<"GET", "pod", 200>>>>

\* C8 as stated: insert(T).values([]) resolves to an empty array and makes
\* no HTTP request.
C8_EmptyInsertResolves ==
  (Done("insert") /\ Len(op.values) = 0) =>
    /\ result = Resolved(<<>>)
    /\ sent = <<>>

\* the rows the fallback planner computes from a base result
FallbackRows(baseRows, users, q) ==
  LET base == IF hasJoins(q) /\ Len(baseRows) > 0 THEN normalizeBaseRows(baseRows) ELSE baseRows
      merged == IF hasJoins(q)
                  THEN mergeRowsWithJoin(base, q, fetchJoinRows(q, base, users))
                  ELSE base
  IN IF shouldUseAggregateFallback(q) THEN handleAggregateFallback(merged) ELSE merged

\* distinct, then orderBy, then offset, then limit
PostModifiers(rows, q) ==
  LimitRows(OffsetRows(
    OrderRows(IF q.distinct THEN DistinctRows(rows) ELSE rows, q.orderBy),
    q.offset), q.limit)

NoModifiers(q) ==
  [q EXCEPT !.limit = Undefined, !.offset = Undefined, !.orderBy = "none", !.distinct = FALSE]

\* C9: a select with a join or an aggregate returns the merged or aggregated
\* rows of the unmodified base SELECT, to which distinct, orderBy, offset and
\* limit have then been applied (in that order); limit(n) bounds the number
\* of rows returned.
C9_ModifiersAfterMerge ==
  (sel.pc = "done" /\ (hasJoins(sel.q) \/ shouldUseAggregateFallback(sel.q))) =>
    /\ sel.out = PostModifiers(FallbackRows(sel.posts, sel.users, NoModifiers(sel.q)), sel.q)
    /\ sel.q.limit.t = "number" => Len(sel.out) <= sel.q.limit.v

\* the joined-alias columns, all undefined
UndefinedJoinColumns == [k \in {"users.name", "users.subject", "users.id"} |-> Undefined]

\* C10: for a single join, the merged rows are, for each base row in input
\* order, one row per row of the joined table whose join column equals the
\* base row's key (the base row's columns together with the joined row's);
\* a base row without a match is left out by innerJoin and emitted once, with
\* the joined-alias columns undefined, by leftJoin.
C10_JoinMerge ==
  (sel.pc \in {"finish", "done"} /\ hasJoins(sel.q)) =>
    sel.rows =
      FlattenRows([i \in 1..Len(sel.base) |->
        LET key == sel.base[i]["posts.authorId"]
            joined == normalizeJoinRows(sel.users)
            matches == SelectSeq(joined, LAMBDA j :
                         ~IsNullish(key) /\ j["users." \o sel.q.on] = key)
        IN IF Len(matches) > 0
             THEN [k \in 1..Len(matches) |-> matches[k] @@ sel.base[i]]
           ELSE IF sel.q.join = "leftJoin"
             THEN <<UndefinedJoinColumns @@ sel.base[i]>>
           ELSE <<>>])

C10_Witness ==
  /\ sel.pc = "done"
  /\ sel.q.join = "leftJoin"
  /\ Len(sel.base) = 2
  /\ Len(sel.rows) = 3
  /\ \E i \in 1..3 : sel.rows[i]["users.id"] = Undefined
  /\ \E i \in 1..3 : sel.rows[i]["users.id"] = Str(U2)


(* ------------------- aggregates over the primary table ----------------- *)
\* Number(value) as collectNumericValues uses it: nan marks NaN
NumberOf(x) ==
  CASE x.t = "number" -> [nan |-> FALSE, v |-> x.v]
    [] x.t = "string" ->
         IF Len(x.v) = 0 THEN [nan |-> FALSE, v |-> 0]
         ELSE IF \A i \in 1..Len(x.v) : IsDigit(x.v[i])
           THEN [nan |-> FALSE, v |-> parseInt(x.v)]
         ELSE [nan |-> TRUE, v |-> 0]
    [] x.t = "null" -> [nan |-> FALSE, v |-> 0]
    [] OTHER -> [nan |-> TRUE, v |-> 0]

\* count(), count(c), sum(c), avg(c), min(c), max(c), each optionally distinct;
\* the builders other than count throw without a column
Aggregates ==
  {a \in [func : {"count", "sum", "avg", "min", "max"},
          column : {"", "age", "name"}, distinct : BOOLEAN] :
     a.func # "count" => a.column # ""}

\* the first value of each key, in input order (the Set `seen` of the collectors)
DedupBy(values, key(_)) ==
  LET firsts == SelectSeq([i \in 1..Len(values) |-> i],
                          LAMBDA i : \A j \in 1..(i - 1) : key(values[j]) # key(values[i]))
  IN [k \in 1..Len(firsts) |-> values[firsts[k]]]

collectValuesForCount(column, rows, distinct) ==
  LET values == SelectSeq([i \in 1..Len(rows) |-> rows[i][column]],
                          LAMBDA x : ~IsNullish(x))
  IN IF distinct THEN DedupBy(values, serializeValueForKey) ELSE values

collectNumericValues(column, rows, distinct) ==
  LET raw == SelectSeq([i \in 1..Len(rows) |-> rows[i][column]],
                       LAMBDA x : ~IsNullish(x) /\ ~NumberOf(x).nan)
      numbers == [i \in 1..Len(raw) |-> NumberOf(raw[i]).v]
  IN IF distinct THEN DedupBy(numbers, NumberToString) ELSE numbers

countDistinctRows(rows) ==
  Cardinality({rows[i] : i \in 1..Len(rows)})

RECURSIVE SumOf(_)
SumOf(values) == IF Len(values) = 0 THEN 0 ELSE values[1] + SumOf(Tail(values))
MinOf(values) ==
  CHOOSE x \in {values[i] : i \in 1..Len(values)} : \A i \in 1..Len(values) : x <= values[i]
MaxOf(values) ==
  CHOOSE x \in {values[i] : i \in 1..Len(values)} : \A i \in 1..Len(values) : x >= values[i]
\* total / values.length; a quotient that is no integer is kept as a fraction
Quotient(total, n) ==
  IF total % n = 0 THEN Num(total \div n) ELSE [t |-> "fraction", v |-> <<total, n>>]

computeAggregateValue_zeroOnEmpty(aggregate, rows) ==
  IF aggregate.column = "" THEN Num(Len(rows))
  ELSE IF aggregate.func = "count"
    THEN Num(Len(collectValuesForCount(aggregate.column, rows, aggregate.distinct)))
  ELSE Num(SumOf(collectNumericValues(aggregate.column, rows, aggregate.distinct)))

\* computeAggregateValue
computeAggregateValue(aggregate, rows) ==
  IF aggregate.column = "" THEN
    IF aggregate.func = "count"
      THEN (IF aggregate.distinct THEN Num(countDistinctRows(rows)) ELSE Num(Len(rows)))
      ELSE Null
  ELSE IF aggregate.func = "count" THEN
    Num(Len(collectValuesForCount(aggregate.column, rows, aggregate.distinct)))
  ELSE LET values == collectNumericValues(aggregate.column, rows, aggregate.distinct)
       IN IF Len(values) = 0 THEN Null
          ELSE CASE aggregate.func = "sum" -> Num(SumOf(values))
                 [] aggregate.func = "avg" -> Quotient(SumOf(values), Len(values))
                 [] aggregate.func = "min" -> Num(MinOf(values))
                 [] OTHER -> Num(MaxOf(values))

\* buildAggregateRow for select({total: count(), value: <aggregate>})
buildAggregateRow(fields, rows) ==
  [total |-> computeAggregateValue(fields.total, rows),
   value |-> computeAggregateValue(fields.value, rows)]

r5 == Row(Str(<<"c">>), Str(<<"7">>), Num(5), Null)
r6 == Row(Str(<<"d">>), Str(<<>>), Null, Null)
AggBatches ==
  {<<>>, <<r1>>, <<r2>>, <<r1, r2>>, <<r3, r2>>, <<r1, r5>>, <<r2, r6>>, <<r1, r2, r5>>}
AggWheres ==
  {NoWhere, WhereTree(eq("name", NameA)), WhereTree(eq("name", NameB)),
   WhereTree(gt("age", Num(20))), WhereTree(eq("name", Str(<<"Z">>)))}
CountAll == [func |-> "count", column |-> "", distinct |-> FALSE]

InitAggregate ==
  /\ podContainer = TRUE /\ podResource = TRUE
  /\ store \in {buildInsertTriples(b, SeedClock) : b \in AggBatches}
  /\ connected = TRUE /\ pc = "idle" /\ op = NoOp /\ queue = <<>> /\ sent = <<>>
  /\ result = Pending /\ clock = SeedClock /\ opsDone = 0 /\ faults = 0
  /\ pre = {} /\ repeat = FALSE /\ cacheStale = FALSE
  /\ sel \in {[pc |-> "base", where |-> w, fields |-> [total |-> CountAll, value |-> a],
               rows |-> <<>>, out |-> <<>>] : w \in AggWheres, a \in Aggregates}

\* execute() of a pure-aggregate select: the base SELECT of every column
AggBase ==
  /\ sel.pc = "base"
  /\ sel' = [sel EXCEPT !.pc = "finish", !.rows = executeSelect(store, sel.where)]
  /\ UNCHANGED podVars

\* handleAggregateFallback without groupBy: one row of aggregate values
AggFinish ==
  /\ sel.pc = "finish"
  /\ sel' = [sel EXCEPT !.pc = "done", !.out = <<buildAggregateRow(sel.fields, sel.rows)>>]
  /\ UNCHANGED podVars

NextAggregate == AggBase \/ AggFinish

\* one pure-aggregate select run to completion over a given resource
SpecAggregate == InitAggregate /\ [][NextAggregate]_vars

HasNumeric(where, column) ==
  \E row \in Matching(store, where) : ~IsNullish(row[column]) /\ ~NumberOf(row[column]).nan

ColumnField(alias, table, column) ==
  [alias |-> alias, kind |-> "column", table |-> table, column |-> column,
   text |-> column]
StringField(alias, table, column) ==
  [alias |-> alias, kind |-> "string", table |-> table, column |-> column,
   text |-> IF table = "" THEN column ELSE table \o "." \o column]
NoFields == {}

Get(row, key) == IF key \in DOMAIN row THEN row[key] ELSE Undefined

\* resolveFieldBindingCandidates: the keys tried for one alias, in order
\* (a Set keeps the first occurrence of a repeated key)
resolveFieldBindingCandidates(field) ==
  IF field.kind = "string"
    THEN <<field.alias, field.text, field.column>>
    ELSE <<field.alias, field.column, field.table \o "." \o field.column>>

\* projectSelectedRow
projectSelectedRow(row, fields) ==
  IF fields = NoFields THEN row
  ELSE [key \in {f.alias : f \in fields} |->
          LET field == CHOOSE f \in fields : f.alias = key
              hits == SelectSeq(resolveFieldBindingCandidates(field),
                                LAMBDA candidate : Get(row, candidate) # Undefined)
          IN IF Len(hits) > 0 THEN row[hits[1]] ELSE Get(row, key)]

\* buildSelectVariables: ?subject first, then (?column AS ?alias) per field,
\* or every column when there is no field map
buildSelectVariables(binding, fields) ==
  IF fields = NoFields THEN binding
  ELSE [key \in {"subject"} \cup {f.alias : f \in fields} |->
          IF key = "subject" THEN binding.subject
          ELSE binding[(CHOOSE f \in fields : f.alias = key).column]]

\* convertSelect as the engine answers it: the solutions of the where,
\* projected on the select variables, DISTINCT over those variables
convertSelect(g, q) ==
  LET bindings == executeSelect(g, q.where)
      rows == [i \in 1..Len(bindings) |-> buildSelectVariables(bindings[i], q.fields)]
  IN IF q.distinct THEN DistinctRows(rows) ELSE rows

r7 == Row(Str(<<"e">>), NameA, Num(20), Null)
DirectBatches ==
  {<<>>, <<r1>>, <<r1, r2>>, <<r3, r2>>, <<r1, r7>>, <<r1, r2, r5>>, <<r2, r6, r7>>}
MapWheres ==
  {NoWhere, WhereMap(<<Entry("name", NameA)>>), WhereMap(<<Entry("age", Num(20))>>),
   WhereMap(<<Entry("age", Null)>>),
   WhereMap(<<Entry("name", NameA), Entry("age", Num(20))>>),
   WhereMap(<<Entry("name", Arr(<<NameA.v, NameB.v>>))>>),
   WhereMap(<<Entry("id", IdA)>>)}
DirectFields ==
  {NoFields, {ColumnField("name", "profiles", "name")},
   {ColumnField("years", "profiles", "age")},
   {ColumnField("name", "profiles", "name"), ColumnField("age", "profiles", "age")}}

InitDirect ==
  /\ podContainer = TRUE /\ podResource = TRUE
  /\ store \in {buildInsertTriples(b, SeedClock) : b \in DirectBatches}
  /\ connected = TRUE /\ pc = "idle" /\ op = NoOp /\ queue = <<>> /\ sent = <<>>
  /\ result = Pending /\ clock = SeedClock /\ opsDone = 0 /\ faults = 0
  /\ pre = {} /\ repeat = FALSE /\ cacheStale = FALSE
  /\ sel \in {[pc |-> "base", where |-> w, fields |-> f, distinct |-> d,
               rows |-> <<>>, out |-> <<>>] :
                w \in MapWheres, f \in DirectFields, d \in BOOLEAN}

\* execute() without join or aggregate: the operation carries the field map,
\* the where and distinct to the engine
DirectSelect ==
  /\ sel.pc = "base"
  /\ sel' = [sel EXCEPT !.pc = "project", !.rows = convertSelect(store, sel)]
  /\ UNCHANGED podVars

\* directResults.map(projectSelectedRow)
DirectProject ==
  /\ sel.pc = "project"
  /\ sel' = [sel EXCEPT !.pc = "done",
               !.out = [i \in 1..Len(sel.rows) |-> projectSelectedRow(sel.rows[i], sel.fields)]]
  /\ UNCHANGED podVars

NextDirect == DirectSelect \/ DirectProject

\* one select of the primary table run to completion over a given resource
SpecDirect == InitDirect /\ [][NextDirect]_vars

\* the test a plain-map entry stands for, on a row of the table
PassesEntry(row, entry) ==
  LET column == entry[1]
      x == entry[2]
      value == IF column = "id" THEN extractIdFromSubject(row.subject) ELSE row[column]
  IN IF x.t = "null" THEN IsNullish(value)
     ELSE IF x.t = "array" THEN \E i \in 1..Len(x.v) : value = Str(x.v[i])
     ELSE value = x

\* C12: a plain-map where is the conjunction of one test per key (equality
\* for a scalar, IS NULL for null, IN-membership for an array); the select
\* returns exactly the rows that pass every test.
C12_PlainMapWhere ==
  (sel.pc = "project" /\ sel.where.kind = "map" /\ sel.fields = NoFields /\ ~sel.distinct) =>
    {sel.rows[i] : i \in 1..Len(sel.rows)} =
      {row \in RowSet(store) :
         \A k \in 1..Len(sel.where.map) : PassesEntry(row, sel.where.map[k])}

\* C13: a select with distinct() returns no two rows whose projected column
\* values are all equal.
C13_DistinctRows ==
  (sel.pc = "done" /\ sel.distinct) =>
    \A i, j \in 1..Len(sel.out) : i # j => sel.out[i] # sel.out[j]


(* ---------------------- projection of joined rows ---------------------- *)
\* select(fields).from(posts).innerJoin|leftJoin(users, {'posts.authorId':
\* 'users.<on>'})
JoinFields ==
  {{ColumnField("title", "posts", "title"), ColumnField("authorName", "users", "name")},
   {ColumnField("userId", "users", "id")},
   {StringField("userId", "users", "id")},
   {StringField("heading", "", "title"), ColumnField("id", "posts", "id")},
   {ColumnField("author", "posts", "authorId"), StringField("missing", "users", "email")}}

InitProject ==
  /\ podContainer = FALSE /\ podResource = FALSE /\ store = {}
  /\ connected = TRUE /\ pc = "idle" /\ op = NoOp /\ queue = <<>> /\ sent = <<>>
  /\ result = Pending /\ clock = SeedClock /\ opsDone = 0 /\ faults = 0
  /\ pre = {} /\ repeat = FALSE /\ cacheStale = FALSE
  /\ sel \in {("fields" :> f) @@ SelStart(posts, users, q) :
                posts \in Tables(PostRows), users \in Tables(UserRows),
                f \in JoinFields,
                q \in {x \in Queries :
                         /\ x.join # "none" /\ ~x.aggregate /\ ~x.distinct
                         /\ x.limit = Undefined /\ x.offset = Undefined
                         /\ x.orderBy = "none"}}

\* intermediateRows.map(projectSelectedRow) on the merged rows
SelProject ==
  /\ sel.pc = "finish"
  /\ sel' = [sel EXCEPT !.pc = "done",
               !.out = [i \in 1..Len(sel.rows) |-> projectSelectedRow(sel.rows[i], sel.fields)]]
  /\ UNCHANGED podVars

NextProject == SelBase \/ SelJoin \/ SelProject

\* one projected join run to completion over given tables
SpecProject == InitProject /\ [][NextProject]_vars

\* alias, then the qualified key, then the plain column name
PriorityValue(row, field) ==
  IF Get(row, field.alias) # Undefined THEN row[field.alias]
  ELSE IF Get(row, field.table \o "." \o field.column) # Undefined
    THEN row[field.table \o "." \o field.column]
  ELSE Get(row, field.column)

\* C14: with a projection, each output alias takes its value from the row
\* key equal to the alias, else from the qualified key tableAlias.column,
\* else from the plain column name, else it is undefined.
C14_ProjectionPriority ==
  (sel.pc = "done" /\ "fields" \in DOMAIN sel) =>
    /\ Len(sel.out) = Len(sel.rows)
    /\ \A i \in 1..Len(sel.out) : \A f \in sel.fields :
         sel.out[i][f.alias] = PriorityValue(sel.rows[i], f)


(* ----------------------- predicate of a column ------------------------- *)
\* a column as getPredicateForColumn sees it: builder columns are
\* PodColumnBase objects (predicate is a method, getPredicate exists); plain
\* objects may carry a predicate string of their own
NoUri == ""
Column(name, explicit, builder, own) ==
  [name |-> name, options |-> [predicate |-> explicit], builder |-> builder,
   predicate |-> own]
ColumnNames ==
  {"id", "name", "email", "title", "age", "verified", "description", "createdAt",
   "url", "homepage"}
ExplicitUri == "http://vocab.test/p"
\* the columns podTable() builds: every one a PodColumnBase
PodColumns == {Column(n, e, TRUE, NoUri) : n \in ColumnNames, e \in {NoUri, ExplicitUri}}
\* table.config.namespace: absent, or a NamespaceConfig with this uri
Namespaces == {NoUri, "https://schema.org/", "http://ns.test/"}

\* PodColumnBase.getPredicate
getPredicate(column, namespace) ==
  IF column.options.predicate # NoUri THEN column.options.predicate
  ELSE IF namespace # NoUri THEN namespace \o column.name
  ELSE "https://schema.org/" \o column.name

defaultPredicates ==
  [id |-> "http://www.w3.org/1999/02/22-rdf-syntax-ns#about",
   name |-> "http://xmlns.com/foaf/0.1/name",
   title |-> "http://purl.org/dc/terms/title",
   description |-> "http://purl.org/dc/terms/description",
   createdAt |-> "https://schema.org/dateCreated",
   email |-> "http://xmlns.com/foaf/0.1/mbox",
   url |-> "http://xmlns.com/foaf/0.1/homepage",
   homepage |-> "http://xmlns.com/foaf/0.1/homepage"]

\* getPredicateForColumn with the column and the table's namespace as given
getPredicateForColumnPublic(column, namespace) ==
  IF column.predicate # NoUri THEN column.predicate
  ELSE IF column.options.predicate # NoUri THEN column.options.predicate
  ELSE IF column.builder THEN getPredicate(column, namespace)
  ELSE IF namespace # NoUri THEN "[object Object]" \o column.name
  ELSE IF column.name \in DOMAIN defaultPredicates THEN defaultPredicates[column.name]
  ELSE "http://example.org/" \o column.name

InitPredicate ==
  /\ podContainer = FALSE /\ podResource = FALSE /\ store = {}
  /\ connected = TRUE /\ pc = "idle" /\ op = NoOp /\ queue = <<>> /\ sent = <<>>
  /\ result = Pending /\ clock = SeedClock /\ opsDone = 0 /\ faults = 0
  /\ pre = {} /\ repeat = FALSE /\ cacheStale = FALSE
  /\ sel \in {[pc |-> "column", column |-> c, namespace |-> n, out |-> NoUri] :
                c \in PodColumns, n \in Namespaces}

\* the converter resolving the predicate of one column of a table
ResolvePredicate ==
  /\ sel.pc = "column"
  /\ sel' = [sel EXCEPT !.pc = "done",
               !.out = getPredicateForColumnPublic(sel.column, sel.namespace)]
  /\ UNCHANGED podVars

SpecPredicate == InitPredicate /\ [][ResolvePredicate]_vars

ExplicitOf(column) ==
  IF column.predicate # NoUri THEN column.predicate ELSE column.options.predicate

\* C15: the predicate of a column is its explicit predicate if set; else the
\* namespace URI followed by the column name if the table declares a
\* namespace; else the built-in default for its name (name -> foaf:name,
\* email -> foaf:mbox); else http://example.org/<name>.
C15_PredicateResolution ==
  sel.pc = "done" =>
    sel.out =
      IF ExplicitOf(sel.column) # NoUri THEN ExplicitOf(sel.column)
      ELSE IF sel.namespace # NoUri THEN sel.namespace \o sel.column.name
      ELSE IF sel.column.name \in DOMAIN defaultPredicates
        THEN defaultPredicates[sel.column.name]
      ELSE "http://example.org/" \o sel.column.name


(* ------------------ one UPDATE text through executeUpdate -------------- *)
\* the pod may answer up to LadderFaults requests untruthfully
LadderFaults == 3
LadderOps ==
  {UpdateOp(<<Entry("age", Num(99))>>, ById(IdA)), DeleteOp(ById(IdA)),
   InsertOp(<<r2>>), UpdateOp(<<Entry("age", Null)>>, ById(IdA))}
TextOf(o) ==
  IF o.type = "insert" THEN convertInsert(o.values, SeedClock)
  ELSE IF o.type = "update" THEN convertUpdate(o.data, whereConditions(o.where), SeedClock)
  ELSE convertDelete(whereConditions(o.where), SeedClock)
Preflight == <<<<"HEAD", "container", 200>>, <<"HEAD", "resource", 200>>>>

\* the operation has passed its preflight and hands its text to the executor
InitLadder ==
  /\ podContainer = TRUE /\ podResource = TRUE
  /\ store \in {buildInsertTriples(b, SeedClock) : b \in {<<r1>>, <<r3>>}}
  /\ connected = TRUE /\ pc = "patch"
  /\ op \in LadderOps /\ queue = <<TextOf(op)>>
  /\ sent = Preflight /\ result = Pending /\ clock = SeedClock /\ opsDone = 1
  /\ faults = LadderFaults /\ pre = store /\ repeat = FALSE /\ cacheStale = FALSE /\ sel = <<>>

NextLadder == Patch \/ RetryPatch \/ LadderGet \/ LadderPut

SpecLadder == InitLadder /\ [][NextLadder]_vars

\* the exchanges of executeUpdate: sent[FirstPatch] answers the first PATCH
FirstPatch == Len(Preflight) + 2
Conflict == pc = "done" /\ Len(sent) >= FirstPatch /\ sent[FirstPatch][3] = 409

\* C16: after a 409 on the first PATCH the executor sends one more PATCH;
\* if that does not return 2xx it sends a GET of the resource and, only when
\* the GET returns 2xx, one PUT; the statement succeeds exactly when the
\* retried PATCH or the PUT returns 2xx.
C16_ConflictLadder ==
  Conflict =>
    /\ Len(sent) > FirstPatch
    /\ sent[FirstPatch + 1][1] = "PATCH"
    /\ ok(sent[FirstPatch + 1][3]) => (Len(sent) = FirstPatch + 1 /\ result.kind = "rows")
    /\ ~ok(sent[FirstPatch + 1][3]) =>
         /\ Len(sent) >= FirstPatch + 2
         /\ sent[FirstPatch + 2][1] = "GET"
         /\ ok(sent[FirstPatch + 2][3]) <=> Len(sent) = FirstPatch + 3
         /\ Len(sent) <= FirstPatch + 3
         /\ Len(sent) = FirstPatch + 3 => sent[FirstPatch + 3][1] = "PUT"
         /\ result.kind = "rows" <=>
              (Len(sent) = FirstPatch + 3 /\ ok(sent[FirstPatch + 3][3]))

\* both retries of the PATCH failed and the GET failed: no PUT is sent
C16_Witness ==
  /\ Conflict
  /\ Len(sent) = FirstPatch + 2
  /\ ~ok(sent[FirstPatch + 1][3])
  /\ ~ok(sent[FirstPatch + 2][3])
  /\ result.kind = "error"

\* C16 as stated: a failed retry is always followed by one PUT
C16_RetryThenPut ==
  Conflict =>
    /\ Len(sent) > FirstPatch
    /\ sent[FirstPatch + 1][1] = "PATCH"
    /\ ~ok(sent[FirstPatch + 1][3]) => Sent("PUT", "resource") # {}
    /\ result.kind = "rows" <=>
         \E i \in (FirstPatch + 1)..Len(sent) : sent[i][1] \in {"PATCH", "PUT"} /\ ok(sent[i][3])


(* ------------- statements of a conditional update or delete ------------ *)
\* the subjects the discovery SELECT returned, and the text for each
Discovered == executeSelect(pre, op.where)
TextFor(k) ==
  IF op.type = "update"
    THEN buildUpdateQueryForSubject(Discovered[k].subject.v, op.data)
    ELSE DeleteSubject(Discovered[k].subject.v)
RECURSIVE AppliedThrough(_)
AppliedThrough(k) == IF k = 0 THEN pre ELSE ApplyUpdate(AppliedThrough(k - 1), TextFor(k))
Writes ==
  {i \in 1..Len(sent) : sent[i][1] \in {"PATCH", "PUT"} /\ sent[i][2] = "resource"
                         /\ ok(sent[i][3])}
InStatements ==
  /\ IsComplex(op)
  /\ FirstPatches # {}
  /\ pc \in {"patch", "retryPatch", "ladderGet", "ladderPut", "done"}

OnTarget(target) == {i \in 1..Len(sent) : sent[i][2] = target}
First(S) == CHOOSE i \in S : \A j \in S : i <= j

\* ensureContainerExists has returned: its HEAD, and its PUT after a 404
ContainerChecked ==
  LET C == OnTarget("container")
  IN /\ C # {}
     /\ sent[First(C)][1] = "HEAD"
     /\ IF sent[First(C)][3] = 404
          THEN C = {First(C), First(C) + 1} /\ sent[First(C) + 1][1] = "PUT"
          ELSE C = {First(C)}
     /\ \A i \in C : \A j \in OnTarget("resource") : i < j

\* resourceExists has returned: its HEAD, and its GET after a 405 or a
\* failed HEAD
ExistenceChecked ==
  LET R == OnTarget("resource")
  IN /\ R # {}
     /\ sent[First(R)][1] = "HEAD"
     /\ sent[First(R)][3] \in {405, NetworkError} =>
          First(R) + 1 \in R /\ sent[First(R) + 1][1] = "GET"

\* ensureResourceExists has returned for an insert: the PUT follows the
\* check when the check said the resource is missing
ResourceEnsured ==
  /\ ExistenceChecked
  /\ LET R == OnTarget("resource")
         head == sent[First(R)][3]
         last == IF head \in {405, NetworkError} THEN First(R) + 1 ELSE First(R)
         exists == IF head \in {405, NetworkError} THEN ok(sent[last][3])
                   ELSE ok(head) \/ head \in {409, 401, 403}
     IN (op.type = "insert" /\ ~exists) =>
          last + 1 \in R /\ sent[last + 1][1] = "PUT"

StatementPcs ==
  {"checkExistence", "findSubjects", "patch", "retryPatch", "ladderGet", "ladderPut"}
IsWrite(o) == o.type \in {"insert", "update", "delete"}

\* C18: within an insert, update or delete the container check (and the
\* creation of the container) is complete before the resource check starts,
\* and both are complete before a SELECT or an update statement is sent.
C18_PreflightFirst ==
  IsWrite(op) =>
    /\ pc = "containerHead" => OnTarget("container") = {} /\ OnTarget("resource") = {}
    /\ pc = "containerPut" =>
         /\ OnTarget("resource") = {}
         /\ \E c \in 1..Len(sent) : OnTarget("container") = {c} /\ sent[c] = <<"HEAD", "container", 404>>
    /\ pc = "resourceHead" => ContainerChecked /\ OnTarget("resource") = {}
    /\ pc = "resourceGet" =>
         /\ ContainerChecked
         /\ \E h \in 1..Len(sent) : OnTarget("resource") = {h} /\ sent[h][1] = "HEAD"
    /\ pc = "resourcePut" =>
         /\ ContainerChecked /\ ExistenceChecked
         /\ Sent("PATCH", "resource") = {}
         /\ Cardinality(OnTarget("resource")) = Cardinality(Sent("GET", "resource")) + 1
         /\ Cardinality(Sent("GET", "resource")) =
              (IF sent[First(OnTarget("resource"))][3] \in {405, NetworkError} THEN 1 ELSE 0)
    /\ pc \in StatementPcs => ContainerChecked /\ ResourceEnsured
    /\ (Sent("PATCH", "resource") # {} \/ Cardinality(Sent("GET", "resource")) > 1) =>
         ContainerChecked /\ ResourceEnsured

\* an insert that created the container and the resource, then sent its
\* SELECT and its statement
C18_Witness ==
  /\ ResolvedOp("insert")
  /\ ContainerChecked /\ ExistenceChecked
  /\ Sent("PUT", "container") # {}
  /\ Sent("PUT", "resource") # {}
  /\ Sent("PATCH", "resource") # {}
  /\ \A i \in Sent("PUT", "resource") : \A j \in Sent("PATCH", "resource") : i < j


(* -------------------- the engine's cache after writes ------------------ *)
\* C19: after a 2xx answer to a PATCH or a PUT on the resource URL the
\* engine's cache entry for that URL is invalidated before the operation
\* settles.
C19_InvalidatedAfterWrite ==
  (pc = "done" /\ Writes # {}) => ~cacheStale


(* ------------------ a resource the HEAD does not find ------------------ *)
\* the resource HEAD of the operation was answered 404
HeadMissing ==
  /\ OnTarget("resource") # {}
  /\ sent[First(OnTarget("resource"))] = <<"HEAD", "resource", 404>>
AfterHead == {i \in OnTarget("resource") : i > First(OnTarget("resource"))}

\* C20: when the resource HEAD returns 404, an insert creates the resource
\* with a PUT before it sends its statement, and an update fails with a
\* not-found error and sends no SPARQL statement.
C20_MissingResource ==
  HeadMissing =>
    /\ op.type = "insert" =>
         /\ pc = "resourcePut" <=> AfterHead = {}
         /\ AfterHead # {} => sent[First(AfterHead)][1] = "PUT"
         /\ \A i \in Sent("PATCH", "resource") \cup Sent("GET", "resource") :
              i > First(AfterHead)
    /\ op.type = "update" =>
         /\ pc = "done"
         /\ result = Rejected("Resource not found")
         /\ AfterHead = {}
         /\ store = pre

\* an insert into a missing resource that created it and then sent its
\* statement
C20_Witness ==
  /\ HeadMissing
  /\ ResolvedOp("insert")
  /\ sent[First(AfterHead)][1] = "PUT"
  /\ Sent("PATCH", "resource") # {}
  /\ store # pre


(* --------------------- 401 and 403 on a preflight HEAD ----------------- *)
Unauthorized == {401, 403}
\* the operation's HEAD on the target was answered 401 or 403
HeadUnauthorized(target) ==
  /\ OnTarget(target) # {}
  /\ sent[First(OnTarget(target))][1] = "HEAD"
  /\ sent[First(OnTarget(target))][3] \in Unauthorized

\* C21: a 401 or 403 answer to a preflight HEAD, on the container or on the
\* resource, counts as "exists": preflight does not fail and the operation
\* goes on towards its data statement.
C21_UnauthorizedHeadExists ==
  IsWrite(op) =>
    /\ HeadUnauthorized("container") =>
         /\ Sent("PUT", "container") = {}
         /\ pc = "resourceHead" \/ OnTarget("resource") # {}
    /\ HeadUnauthorized("resource") =>
         /\ pc \in StatementPcs \/ pc = "done"
         /\ pc = "done" => Cardinality(OnTarget("resource")) > 1


(* ------------------ what a successful ladder leaves -------------------- *)
\* C22: whenever the 409 ladder reports the statement as successful, the
\* resource holds its former triples with exactly the statement's deletions
\* and insertions applied; triples of other subjects are still there.
NamedSubjects(stmt) == {d.s : d \in stmt.delete} \cup {t.s : t \in stmt.insert}
C22_LadderAppliesStatement ==
  (Conflict /\ result.kind = "rows") =>
    /\ store = ApplyUpdate(pre, TextOf(op))
    /\ \A t \in pre : t.s \notin NamedSubjects(TextOf(op)) => t \in store


(* ------------- subjects written by an update or a delete --------------- *)
\* the where() argument names the id column
RECURSIVE ConditionMentions(_, _)
ConditionMentions(c, column) ==
  \/ c.column = column
  \/ \E i \in 1..Len(c.conditions) : ConditionMentions(c.conditions[i], column)
  \/ \E i \in 1..Len(c.left) : ConditionMentions(c.left[i], column)
MentionsId(where) ==
  \/ where.kind = "map" /\ \E i \in 1..Len(where.map) : where.map[i][1] = "id"
  \/ where.kind = "tree" /\ ConditionMentions(where.tree[1], "id")

\* C23: an update or delete whose where does not mention id never targets
\* or adds triples for a subject URI that the resource did not hold; no
\* subject it writes to comes from the clock.
C23_NoClockSubject ==
  (op.type \in {"update", "delete"} /\ ~MentionsId(op.where)) =>
    /\ SubjectsOf(store) \subseteq SubjectsOf(pre)
    /\ \A i \in 1..Len(queue) : NamedSubjects(queue[i]) \subseteq SubjectsOf(pre)


(* ------------------- operations in flight together --------------------- *)
\* Two write operations of one session run concurrently: they share the
\* executor (this.sources) and the pod; every await is a point where the
\* other operation may run.  sel holds the executor's sources, the pod's
\* resources by URL and, per operation, its position and local variables.
PodUrl == <<"/">>
TableNames == {"profiles", "posts"}
ResourceUrlOf(table) == IF table = "profiles" THEN BaseUri ELSE <<"/data/posts.ttl">>
ContainerUrl == <<"/data/">>
Procs == {1, 2}
ConcurrentOps ==
  {InsertOp(<<r1>>), InsertOp(<<r2>>), UpdateOp(<<Entry("age", Num(99))>>, ById(IdA))}

Proc(table, o) ==
  [pc |-> "containerHead", table |-> table, op |-> o, text |-> <<>>,
   originalSources |-> <<>>, source |-> <<>>, etag |-> {}, sent |-> <<>>,
   result |-> Pending]

InitConcurrent ==
  /\ podContainer = TRUE /\ podResource = TRUE /\ store = {}
  /\ connected = TRUE /\ pc = "idle" /\ op = NoOp /\ queue = <<>> /\ sent = <<>>
  /\ result = Pending /\ clock = SeedClock /\ opsDone = 0 /\ faults = 0
  /\ pre = {} /\ repeat = FALSE /\ cacheStale = FALSE
  /\ sel \in {[sources |-> <<PodUrl>>,
               resources |-> [u \in {PodUrl} \cup {ResourceUrlOf(t) : t \in TableNames} |->
                               IF u = PodUrl THEN {} ELSE g],
               procs |-> <<Proc(t1, o1), Proc(t2, o2)>>] :
                g \in {{}, buildInsertTriples(<<r1>>, SeedClock)},
                t1 \in TableNames, t2 \in TableNames,
                o1 \in ConcurrentOps, o2 \in ConcurrentOps}

Me(i) == sel.procs[i]
Fetch(i, method, url) == Append(Me(i).sent, <<method, url>>)

\* ensureContainerExists: HEAD of the container, which exists
ContainerHeadOf(i) ==
  /\ Me(i).pc = "containerHead"
  /\ sel' = [sel EXCEPT !.procs[i].pc = "resourceHead",
                        !.procs[i].sent = Fetch(i, "HEAD", ContainerUrl)]
  /\ UNCHANGED podVars

\* ensureResourceExists: HEAD of the resource, which exists
ResourceHeadOf(i) ==
  /\ Me(i).pc = "resourceHead"
  /\ sel' = [sel EXCEPT
       !.procs[i].pc = IF Me(i).op.type = "insert" THEN "checkExistence" ELSE "initEngine",
       !.procs[i].text =
          IF Me(i).op.type = "insert" THEN <<>>
          ELSE <<convertUpdate(Me(i).op.data, whereConditions(Me(i).op.where), clock)>>,
       !.procs[i].sent = Fetch(i, "HEAD", ResourceUrlOf(Me(i).table))]
  /\ UNCHANGED podVars

\* checkResourceExistence: GET of the resource, then convertInsert
CheckExistenceOf(i) ==
  /\ Me(i).pc = "checkExistence"
  /\ LET values == Me(i).op.values
         turtleData == Turtle(sel.resources[ResourceUrlOf(Me(i).table)])
         found == \E k \in 1..Len(values) :
                    includes(turtleData, generateSubjectUri(values[k].id, clock))
     IN sel' = [sel EXCEPT
          !.procs[i].pc = IF found \/ HasDuplicateIds(values) THEN "done" ELSE "initEngine",
          !.procs[i].result =
             IF found THEN Rejected("Resource already exists, INSERT aborted")
             ELSE IF HasDuplicateIds(values) THEN Rejected("Duplicate IDs found in insert data")
             ELSE Pending,
          !.procs[i].text = IF found \/ HasDuplicateIds(values) THEN <<>>
                            ELSE <<convertInsert(values, clock)>>,
          !.procs[i].sent = Fetch(i, "GET", ResourceUrlOf(Me(i).table))]
  /\ UNCHANGED podVars

LoopSource_shared(i) == sel.sources[1]

\* executeUpdate: the loop variable of `for (const source of this.sources)`
LoopSource(i) == Me(i).source

\* executeQueryWithSource after `await this.initEngine()`: saves this.sources,
\* sets it to [sourceUrl], and executeUpdate starts its loop and its HEAD
InitEngineOf(i) ==
  /\ Me(i).pc = "initEngine"
  /\ LET sourceUrl == ResourceUrlOf(Me(i).table)
     IN sel' = [sel EXCEPT
          !.sources = <<sourceUrl>>,
          !.procs[i].originalSources = sel.sources,
          !.procs[i].source = sourceUrl,
          !.procs[i].pc = "head"]
  /\ UNCHANGED podVars

\* executeUpdate: the answer to the HEAD gives the ETag
HeadOf(i) ==
  /\ Me(i).pc = "head"
  /\ sel' = [sel EXCEPT
       !.procs[i].etag = sel.resources[LoopSource(i)],
       !.procs[i].sent = Fetch(i, "HEAD", LoopSource(i)),
       !.procs[i].pc = "patch"]
  /\ UNCHANGED podVars

\* executeUpdate: PATCH with If-Match; the pod refuses with 412 when the
\* resource changed since the HEAD, and applies the text otherwise
PatchOf(i) ==
  /\ Me(i).pc = "patch"
  /\ LET url == LoopSource(i)
         status == IF ~Me(i).text[1].valid THEN 400
                   ELSE IF sel.resources[url] # Me(i).etag THEN 412 ELSE 205
     IN sel' = [sel EXCEPT
          !.resources[url] = IF status = 205 THEN ApplyUpdate(@, Me(i).text[1]) ELSE @,
          !.procs[i].sent = Fetch(i, "PATCH", url),
          !.procs[i].result =
             IF ok(status)
               THEN Resolved(<<[success |-> TRUE, source |-> url, status |-> status]>>)
               ELSE Rejected("PATCH failed"),
          !.procs[i].pc = "restore"]
  /\ UNCHANGED podVars

\* executeQueryWithSource, finally: this.sources = originalSources
RestoreOf(i) ==
  /\ Me(i).pc = "restore"
  /\ sel' = [sel EXCEPT !.sources = Me(i).originalSources, !.procs[i].pc = "done"]
  /\ UNCHANGED podVars

NextConcurrent ==
  \/ \E i \in Procs : ContainerHeadOf(i)
  \/ \E i \in Procs : ResourceHeadOf(i)
  \/ \E i \in Procs : CheckExistenceOf(i)
  \/ \E i \in Procs : InitEngineOf(i)
  \/ \E i \in Procs : HeadOf(i)
  \/ \E i \in Procs : PatchOf(i)
  \/ \E i \in Procs : RestoreOf(i)

SpecConcurrent == InitConcurrent /\ [][NextConcurrent]_vars

AllDone == \A i \in Procs : Me(i).pc = "done"
SentBy(i, method) == {k \in 1..Len(Me(i).sent) : Me(i).sent[k][1] = method}
SubjectsIntroducedBy(i) ==
  {generateSubjectUri(Me(i).op.values[k].id, clock) : k \in 1..Len(Me(i).op.values)}

\* C24: when two inserts of rows with the same id on the same table run
\* concurrently, at most one of them sends its INSERT DATA and the other
\* fails with resource-exists, whatever the interleaving.
C24_OneInsertWins ==
  (/\ AllDone
   /\ Me(1).op.type = "insert" /\ Me(2).op.type = "insert"
   /\ Me(1).table = Me(2).table
   /\ SubjectsIntroducedBy(1) \cap SubjectsIntroducedBy(2) # {}) =>
    /\ SentBy(1, "PATCH") = {} \/ SentBy(2, "PATCH") = {}
    /\ \E i \in Procs : Me(i).result = Rejected("Resource already exists, INSERT aborted")


\* C29: under any interleaving of operations on different tables, every
\* PATCH or PUT goes to the resource URL of the table of the operation that
\* sent it.
C29_OwnResourceOnly ==
  \A i \in Procs : \A k \in SentBy(i, "PATCH") \cup SentBy(i, "PUT") :
    Me(i).sent[k][2] = ResourceUrlOf(Me(i).table)

\* two operations on different tables whose executor calls overlapped, each
\* having sent its PATCH
C29_Witness ==
  /\ AllDone
  /\ Me(1).table # Me(2).table
  /\ SentBy(1, "PATCH") # {} /\ SentBy(2, "PATCH") # {}
  /\ sel.sources # <<PodUrl>>

\* C30: once all concurrent write operations have completed, successfully
\* or not, the executor's source list is the one it had before they started.
C30_SourcesRestored ==
  AllDone => sel.sources = <<PodUrl>>


(* ------------- native update and read-modify-write update -------------- *)
\* executeComplexUpdate on resource g: the statements of the discovered
\* subjects applied in turn, stopping at the first the pod refuses
RECURSIVE executeComplexUpdate(_, _, _)
executeComplexUpdate(g, rows, data) ==
  IF Len(rows) = 0 THEN g
  ELSE LET stmt == buildUpdateQueryForSubject(rows[1].subject.v, data)
       IN IF PatchTruth(stmt) = 205
            THEN executeComplexUpdate(ApplyUpdate(g, stmt), Tail(rows), data)
            ELSE g

\* a condition tree that takes the read-modify-write path
OnlyRowA == WhereTree(and(eq("name", NameA), eq("age", Num(20))))
MatchesOnly(g, where, id) ==
  /\ Len(executeSelect(g, where)) = 1
  /\ executeSelect(g, where)[1].subject.v = generateSubjectUri(id, clock)

\* C25: for a row with id x and any set-map D (null values included), the
\* native update where({id: x}) and the read-modify-write update where(C),
\* C matching only that row, leave the resource with the same triples.
C25_NativeEqualsReadModifyWrite ==
  (/\ Done("update")
   /\ op.where = ById(IdA)
   /\ IsComplex(UpdateOp(op.data, OnlyRowA))
   /\ MatchesOnly(pre, OnlyRowA, IdA)) =>
    store = executeComplexUpdate(pre, executeSelect(pre, OnlyRowA), op.data)


(* ------------------- when an insert is refused ------------------------- *)
\* C26: an insert is rejected as resource-exists only if the resource holds
\* a subject whose URI equals the subject URI of some row of the batch.
C26_ExistsOnlyIfEqualSubject ==
  (Done("insert") /\ result = AlreadyExists) =>
    IntroducedSubjects \cap SubjectsOf(pre) # {}

(* -------- joins on several conditions, where on joined columns --------- *)
\* createBinaryCondition given a column of a table: the condition carries
\* the table's name
On(table, c) == ("table" :> table) @@ c
\* condition.table, "" when the condition carries none
TableOf(c) == IF "table" \in DOMAIN c THEN c.table ELSE ""

Ann == Str(<<"A", "n", "n">>)

\* the where() argument of the query, if any: a condition on a joined column
\* on its own, nested in and / or / not, or a condition on the primary table
JoinWheres ==
  {<<>>,
   <<On("users", eq("name", Ann))>>,
   <<and(On("users", eq("name", Ann)), eq("rank", Num(2)))>>,
   <<or(On("users", eq("name", Ann)), eq("rank", Num(1)))>>,
   <<not(On("users", eq("name", Ann)))>>,
   <<On("posts", eq("rank", Num(2)))>>}

\* the join condition object as its Object.entries, <<left key, right key>>,
\* the left keys distinct as the keys of an object are
JoinConditions ==
  {<< <<"authorId", "id">> >>,
   << <<"authorId", "name">> >>,
   << <<"authorId", "id">>, <<"title", "name">> >>,
   << <<"authorId", "name">>, <<"title", "name">> >>}

resolveJoinConditions(condition) ==
  [i \in 1..Len(condition) |->
     [left |-> [alias |-> "posts", column |-> condition[i][1]],
      right |-> [alias |-> "users", column |-> condition[i][2]]]]

\* the builder after from(posts) and one join of users; fetchJoinRows and
\* mergeRowsWithJoin take the primary condition, const [primaryCondition]
JoinStart(posts, users, join, condition, where) ==
  [pc |-> "where", posts |-> posts, users |-> users, rows |-> <<>>,
   base |-> <<>>, joinRows |-> <<>>, out |-> <<>>,
   q |-> [join |-> join, on |-> resolveJoinConditions(condition)[1].right.column,
          aggregate |-> FALSE, limit |-> Undefined, offset |-> Undefined,
          orderBy |-> "none", distinct |-> FALSE],
   conditions |-> resolveJoinConditions(condition), where |-> where,
   conditionTree |-> <<>>, joinFilters |-> <<>>]

InitJoinWhere ==
  /\ podContainer = FALSE /\ podResource = FALSE /\ store = {}
  /\ connected = TRUE /\ pc = "idle" /\ op = NoOp /\ queue = <<>> /\ sent = <<>>
  /\ result = Pending /\ clock = SeedClock /\ opsDone = 0 /\ faults = 0
  /\ pre = {} /\ repeat = FALSE /\ cacheStale = FALSE
  /\ sel \in {JoinStart(posts, users, join, condition, where) :
                posts \in Tables(PostRows), users \in Tables(UserRows),
                join \in {"innerJoin", "leftJoin"},
                condition \in JoinConditions, where \in JoinWheres}

\* processQueryCondition: to the join filters when the condition itself
\* carries a table other than the primary alias, else the condition tree
processQueryCondition(condition, builder) ==
  IF TableOf(condition) # "" /\ TableOf(condition) # "posts"
    THEN [builder EXCEPT !.joinFilters = Append(builder.joinFilters, condition)]
  ELSE [builder EXCEPT !.conditionTree = <<condition>>]

\* where(condition), when the query has one
JoinWhere ==
  /\ sel.pc = "where"
  /\ sel' = [(IF Len(sel.where) = 0 THEN sel
              ELSE processQueryCondition(sel.where[1], sel)) EXCEPT !.pc = "base"]
  /\ UNCHANGED podVars

\* the solution of the primary table's SELECT that a row of posts comes from;
\* a variable the table's patterns do not bind stays unbound
PostSolution(row) ==
  [k \in {"subject", "title", "authorId", "rank", "name"} |->
     IF k = "subject" THEN Iri(row.subject.v)
     ELSE IF k \in DOMAIN row /\ ~IsNullish(row[k]) THEN buildLiteralTerm(row[k])
     ELSE Unbound]

\* execute(): the primary table's SELECT with the condition tree as its
\* FILTER, then normalizeBaseRows
JoinBase ==
  /\ sel.pc = "base"
  /\ LET rows == SelectSeq(sel.posts, LAMBDA r :
                   Len(sel.conditionTree) = 0 \/
                   buildConditionExpression(sel.conditionTree[1], PostSolution(r))
                     \in {"T", "N"})
     IN sel' = [sel EXCEPT !.pc = "join",
                  !.rows = IF Len(rows) = 0 THEN rows ELSE normalizeBaseRows(rows)]
  /\ UNCHANGED podVars

evaluateBinaryCondition(row, c) ==
  IF c.column = "" THEN TRUE
  ELSE LET value == getRowValueForColumn(row,
                      IF TableOf(c) = "" THEN "posts" ELSE TableOf(c), c.column)
           target == c.value
           same == value.t = target.t /\ value.v = target.v
           a == NumberOf(value)
           b == NumberOf(target)
       IN CASE c.operator = "=" -> same
            [] c.operator = "!=" -> ~same
            [] c.operator = ">" -> ~a.nan /\ ~b.nan /\ a.v > b.v
            [] c.operator = ">=" -> ~a.nan /\ ~b.nan /\ a.v >= b.v
            [] c.operator = "<" -> ~a.nan /\ ~b.nan /\ a.v < b.v
            [] c.operator = "<=" -> ~a.nan /\ ~b.nan /\ a.v <= b.v
            [] OTHER -> TRUE

\* evaluateCondition over evaluateUnaryCondition (which answers true for a
\* condition without a column, NOT included) and evaluateLogicalCondition
RECURSIVE evaluateCondition(_, _)
evaluateCondition(row, c) ==
  IF c.type = "binary_expr" THEN evaluateBinaryCondition(row, c)
  ELSE IF c.type = "unary_expr" THEN
    IF c.column = "" THEN TRUE
    ELSE LET value == getRowValueForColumn(row,
                        IF TableOf(c) = "" THEN "posts" ELSE TableOf(c), c.column)
         IN CASE c.operator = "IS NULL" -> IsNullish(value)
              [] c.operator = "IS NOT NULL" -> ~IsNullish(value)
              [] c.operator = "NOT" -> ~evaluateCondition(row, c.left[1])
              [] OTHER -> TRUE
  ELSE IF c.operator = "AND" THEN
    \A i \in 1..Len(c.conditions) : evaluateCondition(row, c.conditions[i])
  ELSE \E i \in 1..Len(c.conditions) : evaluateCondition(row, c.conditions[i])

applyJoinFilters(rows, joinFilters) ==
  SelectSeq(rows, LAMBDA row :
    \A i \in 1..Len(joinFilters) : evaluateCondition(row, joinFilters[i]))

\* applyJoinFallback, then applyJoinFilters; the rows execute() resolves with
JoinMerge ==
  /\ sel.pc = "join"
  /\ LET joinRows == fetchJoinRows(sel.q, sel.rows, sel.users)
         merged == mergeRowsWithJoin(sel.rows, sel.q, joinRows)
     IN sel' = [sel EXCEPT !.pc = "done", !.base = sel.rows, !.joinRows = joinRows,
                  !.rows = merged, !.out = applyJoinFilters(merged, sel.joinFilters)]
  /\ UNCHANGED podVars

NextJoinWhere == JoinWhere \/ JoinBase \/ JoinMerge

\* one joined select, with its join conditions and where, run to completion
SpecJoinWhere == InitJoinWhere /\ [][NextJoinWhere]_vars

\* the value of one side of a join condition entry on a merged row
SideOf(row, ref) == getRowValueForColumn(row, ref.alias, ref.column)

\* C27: when a join is registered with several condition entries, every row
\* the query returns that carries a joined row satisfies the equality of
\* every entry, the first (used for the hash lookup) and the remaining ones
C27_EveryEntryHolds ==
  sel.pc = "done" =>
    \A i \in 1..Len(sel.out) :
      ~IsNullish(sel.out[i]["users.subject"]) =>
        \A k \in 1..Len(sel.conditions) :
          LET l == SideOf(sel.out[i], sel.conditions[k].left)
              r == SideOf(sel.out[i], sel.conditions[k].right)
          IN l.t = r.t /\ l.v = r.v

\* does the condition, or one nested in it, carry a joined table's alias
RECURSIVE MentionsJoined(_)
MentionsJoined(c) ==
  \/ TableOf(c) \notin {"", "posts"}
  \/ \E i \in 1..Len(c.conditions) : MentionsJoined(c.conditions[i])
  \/ \E i \in 1..Len(c.left) : MentionsJoined(c.left[i])

\* C28: once where() has been processed, the condition tree handed to the
\* primary table's SELECT holds no condition on a joined alias, on its own
\* or nested in and / or / not, and a where that has such a condition has
\* put it among the join filters evaluated on the merged rows
C28_JoinedConditionsPostMerge ==
  (sel.pc # "where" /\ Len(sel.where) > 0 /\ MentionsJoined(sel.where[1])) =>
    /\ Len(sel.conditionTree) = 0 \/ ~MentionsJoined(sel.conditionTree[1])
    /\ Len(sel.joinFilters) > 0

====
